---- MODULE Spec2Model ----
(***************************************************************************)
(* Model of the matrix-client engine (Tauri commands over a shared         *)
(* MatrixState) and of the React front end that drives it.                 *)
(*                                                                         *)
(* Every Tauri command is an async function: it is modelled as a sequence  *)
(* of steps, one per await point, executed by a task.  Strings the code    *)
(* inspects (homeserver, username, password) are sequences of characters.  *)
(***************************************************************************)
EXTENDS Naturals, Integers, Sequences, FiniteSets, TLC

(* ---------------------------- bounds ----------------------------------- *)
\* number of connection handles (Client::builder().build()) the model creates
MaxHandles == 2
\* number of verification flows the SDK creates
MaxFlows == 1

(* ---------------------------- strings ---------------------------------- *)
Str_http == <<"h","t","t","p",":","/","/">>
Str_https == <<"h","t","t","p","s",":","/","/">>
HS_http == Str_http \o <<"m">>
HS_https == Str_https \o <<"m">>
HS_ftp == <<"f","t","p",":","/","/","m">>
HS_padded == <<" ">> \o HS_https
UserA == <<"@","a",":","m">>
UserB == <<"@","b",":","m">>
\* the user id typed with a leading space: login_username(username.trim(), ..)
\* logs in as UserA, the session directory is named after the untrimmed text
UserAPadded == <<" ">> \o UserA
Blank == <<" ">>
Empty == <<>>
Pw == <<"p">>

Homeservers == {Empty, HS_http, HS_https, HS_ftp, HS_padded}
Usernames == {Empty, Blank, UserA, UserB}
Passwords == {Empty, Pw}

RECURSIVE TrimStart(_)
TrimStart(s) ==
    IF s = <<>> THEN s
    ELSE IF Head(s) = " " THEN TrimStart(Tail(s)) ELSE s

RECURSIVE TrimEnd(_)
TrimEnd(s) ==
    IF s = <<>> THEN s
    ELSE IF s[Len(s)] = " " THEN TrimEnd(SubSeq(s, 1, Len(s) - 1)) ELSE s

\* str::trim
Trim(s) == TrimEnd(TrimStart(s))

\* str::starts_with
StartsWith(s, p) == Len(s) >= Len(p) /\ SubSeq(s, 1, Len(p)) = p

RECURSIVE RemoveChar(_, _)
RemoveChar(s, c) ==
    IF s = <<>> THEN <<>>
    ELSE IF Head(s) = c THEN RemoveChar(Tail(s), c)
         ELSE <<Head(s)>> \o RemoveChar(Tail(s), c)

ReplaceChar(s, c, d) == [i \in 1..Len(s) |-> IF s[i] = c THEN d ELSE s[i]]

\* auth.rs sanitize_user_id: replace("@","").replace(":","_").replace("/","_").replace("\\","_")
sanitize_user_id(u) ==
    ReplaceChar(ReplaceChar(ReplaceChar(RemoveChar(u, "@"), ":", "_"), "/", "_"), "\\", "_")

\* the check with the password test forgotten
AllFieldsPresent_NoPassword(hs, un, pw) == Trim(hs) # <<>> /\ Trim(un) # <<>>

\* matrix_login step 1: the two validation conditions
AllFieldsPresent(hs, un, pw) == Trim(hs) # <<>> /\ Trim(un) # <<>> /\ pw # <<>>
SchemeOk(hs) == StartsWith(hs, Str_http) \/ StartsWith(hs, Str_https)
ValidLoginInput(hs, un, pw) == AllFieldsPresent(hs, un, pw) /\ SchemeOk(hs)

(* ---------------------------- state ------------------------------------ *)
Tasks == {1, 2}

\* Option<Client> / Option<String> / Option<flow id>: the None values
NoClient == [user |-> <<>>, hid |-> 0]
NoUser == <<>>
NoFlow == 0

DirNames == {sanitize_user_id(u) : u \in {UserA, UserB, UserAPadded}}

VARIABLES
    client,                 \* MatrixState.client
    user_id,                \* MatrixState.user_id
    verification_flow_id,   \* MatrixState.verification_flow_id
    clientReaders,          \* tasks holding a read guard of MatrixState.client
    flowReaders,            \* tasks holding a read guard of MatrixState.verification_flow_id
    vreq,                   \* SDK: flow id -> the verification request and its SAS
    nextFlow,               \* next flow id the SDK hands out
    replaced,               \* history: the user id the latest successful login overwrote
    lastLogin,              \* history: the session the latest successful login installed
    cancelledSeen,          \* history: polls of the current flow that returned Cancelled
    disk,                   \* data_dir: directory name -> "absent" | "empty" | "store"
    nextHid,                \* next connection handle the SDK hands out
    task,                   \* per task: position in its command, locals, result
    dlg,                    \* VerificationDialog: mounted, step, error, the flow it requested
    timer,                  \* pollForEmoji: the interval and its attempts counter
    cb,                     \* per task: the dialog handler awaiting its result
    declared,               \* history: per flow, the terminal states declared so far
    cross_signing,          \* SDK: the account's cross-signing status, as this device sees it
    timeline,               \* homeserver: room id -> the room's events, oldest first
    lastPage,               \* history: the room and page of the latest successful get_messages
    app,                    \* App: selectedRoom, messages, nextToken, hasMoreMessages, ...
    closure                 \* per task: what the App handler awaiting its result captured

ui == <<dlg, timer, cb, declared>>

chat == <<timeline, lastPage, app, closure>>

vars == <<client, user_id, verification_flow_id, clientReaders, flowReaders, vreq, nextFlow,
          replaced, lastLogin, cancelledSeen, disk, nextHid, task, dlg, timer, cb, declared,
          cross_signing, timeline, lastPage, app, closure>>

hist == <<replaced, lastLogin, cancelledSeen>>

store == <<client, user_id, verification_flow_id>>
locks == <<clientReaders, flowReaders>>
sdk == <<vreq, nextFlow>>

(* ---------------------------- rooms and timelines ----------------------- *)
\* room ids: two joined rooms, a well-formed id of a room the user is not in,
\* and a string that is no room id
Room1 == <<"!", "1", ":", "m">>
Room2 == <<"!", "2", ":", "m">>
RoomX == <<"!", "x", ":", "m">>
RoomBad == <<"1">>
NoRoom == <<>>
JoinedRooms == {Room1, Room2}
RoomIds == {Room1, Room2, RoomX, RoomBad}

\* longest timeline of a room
MaxTimeline == 3
\* page size the SDK asks the homeserver for when the options name none
SdkDefaultLimit == 2

\* Option<MilliSecondsSinceUnixEpoch>: the None value
NoTimestamp == -1

\* the shapes of a raw timeline event: what the SDK reports about decryption,
\* and what the event turns out to be when it is deserialized
EventShapes ==
    {[kind |-> "Decrypted", content |-> "Text"],
     [kind |-> "Decrypted", content |-> "Image"],
     [kind |-> "Decrypted", content |-> "Malformed"],
     [kind |-> "PlainText", content |-> "Emote"],
     [kind |-> "PlainText", content |-> "Redacted"],
     [kind |-> "PlainText", content |-> "State"],
     [kind |-> "UnableToDecrypt", content |-> "Hidden"]}

RawEvent(shape, sender, ts) ==
    [kind |-> shape.kind, content |-> shape.content, sender |-> sender, ts |-> ts]

\* the events the homeserver can hold at position i of a room: received at
\* time i; a text message or an undecryptable event may also come without a
\* timestamp the SDK could read
EventsAt(i) ==
    {RawEvent(sh, "@a:m", i) : sh \in EventShapes}
        \cup {RawEvent(sh, "@a:m", NoTimestamp) :
                 sh \in {x \in EventShapes : x.content \in {"Text", "Hidden"}}}

RECURSIVE TimelinesOf(_)
TimelinesOf(n) ==
    IF n = 0 THEN {<<>>}
    ELSE LET shorter == TimelinesOf(n - 1)
         IN shorter \cup {Append(tl, e) : tl \in {x \in shorter : Len(x) = n - 1},
                                           e \in EventsAt(n)}

\* Option<String> of a pagination token: the None value, and the token that
\* resumes room r below position pos, handed out to connection hid
NoToken == [room |-> NoRoom, pos |-> 0, hid |-> 0]
Token(r, pos, hid) == [room |-> r, pos |-> pos, hid |-> hid]

\* MessagesResponse
NoPage == [messages |-> <<>>, has_more |-> FALSE, next_token |-> NoToken]
NoFetch == [room |-> NoRoom, page |-> NoPage]

\* App: the state of the component before anything is selected or loaded
AppStart == [loggedIn |-> FALSE, selectedRoom |-> NoRoom, messages |-> <<>>,
             nextToken |-> NoToken, hasMoreMessages |-> TRUE,
             isLoadingMessages |-> FALSE]
NoClosure == [room |-> NoRoom, messages |-> <<>>]

IdleTask == [pc |-> "idle", cmd |-> "none", un |-> <<>>, lc |-> NoClient, fl |-> NoFlow,
             devs |-> <<>>, n |-> 0, ok |-> TRUE, msg |-> "", val |-> <<>>,
             touched |-> FALSE, synced |-> FALSE,
             room |-> NoRoom, lim |-> 0, tok |-> NoToken, chunk |-> <<>>,
             end |-> NoToken, page |-> NoPage, prev |-> NoFetch]

\* no room holds a message and the App shows none
ChatClosed ==
    /\ timeline = [r \in JoinedRooms |-> <<>>]
    /\ lastPage = NoFetch
    /\ app = AppStart
    /\ closure = [t \in Tasks |-> NoClosure]

Flows == 1..MaxFlows
NoRequest == [phase |-> "none", sas |-> "none"]

\* the dialog before showVerification is set, and the interval before pollForEmoji
NoDialog == [open |-> FALSE, step |-> "request", error |-> "", flow |-> NoFlow,
             closing |-> FALSE]
NoTimer == [active |-> FALSE, attempts |-> 0]

Init ==
    /\ client = NoClient
    /\ user_id = NoUser
    /\ verification_flow_id = NoFlow
    /\ clientReaders = {}
    /\ flowReaders = {}
    /\ vreq = [f \in Flows |-> NoRequest]
    /\ nextFlow = 1
    /\ replaced = NoUser
    /\ lastLogin = NoClient
    /\ cancelledSeen = 0
    /\ disk = [d \in DirNames |-> "absent"]
    /\ nextHid = 1
    /\ task = [t \in Tasks |-> IdleTask]
    /\ dlg = NoDialog
    /\ timer = NoTimer
    /\ cb = [t \in Tasks |-> "none"]
    /\ declared = [f \in Flows |-> {}]
    /\ cross_signing = "incomplete"
    /\ ChatClosed

\* a command returns Err(msg)
Fail(t, m) == [task[t] EXCEPT !.pc = "ret", !.ok = FALSE, !.msg = m, !.devs = <<>>, !.n = 0]
\* a command returns Ok(msg)
Succeed(t, m) == [task[t] EXCEPT !.pc = "ret", !.ok = TRUE, !.msg = m, !.devs = <<>>, !.n = 0]
At(t, p) == task[t].pc = p
\* the command c starts in task t: called directly, or invoked by the front end
Invoked(t, c) == At(t, "idle") \/ (At(t, "call") /\ task[t].cmd = c)
Goto(t, p) == [task[t] EXCEPT !.pc = p]

(* ---------------------------- matrix_login ----------------------------- *)
\* steps 1 and 2: validate the input, then clear and re-create the session
\* directory (synchronous file operations, any of which may fail)
LoginStart(t, hs, un, pw) ==
    /\ Invoked(t, "matrix_login")
    /\ LET t0 == [IdleTask EXCEPT !.cmd = "matrix_login", !.un = un]
           dir == sanitize_user_id(un)
       IN IF ~AllFieldsPresent(hs, un, pw)
          THEN /\ task' = [task EXCEPT ![t] = [t0 EXCEPT !.pc = "ret", !.ok = FALSE,
                                                        !.msg = "All fields are required"]]
               /\ disk' = disk
          ELSE IF ~SchemeOk(hs)
          THEN /\ task' = [task EXCEPT ![t] = [t0 EXCEPT !.pc = "ret", !.ok = FALSE,
                                 !.msg = "Homeserver URL must start with http:// or https://"]]
               /\ disk' = disk
          ELSE \/ /\ disk[dir] # "absent"          \* remove_dir_all fails
                  /\ disk' = disk
                  /\ task' = [task EXCEPT ![t] = [t0 EXCEPT !.pc = "ret", !.ok = FALSE,
                                                   !.msg = "Failed to clear session"]]
               \/ /\ disk' = [disk EXCEPT ![dir] = "absent"]   \* create_dir_all fails
                  /\ task' = [task EXCEPT ![t] = [t0 EXCEPT !.pc = "ret", !.ok = FALSE,
                                                   !.msg = "Failed to create session dir"]]
               \/ /\ disk' = [disk EXCEPT ![dir] = "empty"]
                  /\ task' = [task EXCEPT ![t] = [t0 EXCEPT !.pc = "login_build",
                                                            !.touched = TRUE]]
    /\ UNCHANGED <<chat, cross_signing, ui, store, locks, sdk, hist, nextHid>>

\* step 3: Client::builder().homeserver_url().sqlite_store(&session_dir).build().await?
LoginBuild(t) ==
    /\ At(t, "login_build")
    /\ \/ /\ nextHid <= MaxHandles
          /\ task' = [task EXCEPT ![t] = [@ EXCEPT !.pc = "login_auth",
                                    !.lc = [user |-> <<>>, hid |-> nextHid]]]
          /\ nextHid' = nextHid + 1
          /\ disk' = [disk EXCEPT ![sanitize_user_id(task[t].un)] = "store"]
       \/ /\ task' = [task EXCEPT ![t] = Fail(t, "Failed to connect")]
          /\ UNCHANGED <<nextHid, disk>>
    /\ UNCHANGED <<chat, cross_signing, ui, store, locks, sdk, hist>>

\* the user id the homeserver reports for a login with this username
ServerUserId(un) == Trim(un)

\* step 4: client.matrix_auth().login_username(username.trim(), &password).await?
LoginAuth(t) ==
    /\ At(t, "login_auth")
    /\ \/ task' = [task EXCEPT ![t] = [@ EXCEPT !.pc = "login_sync",
                                 !.lc = [@ EXCEPT !.user = ServerUserId(task[t].un)]]]
       \/ task' = [task EXCEPT ![t] = Fail(t, "Login failed")]
    /\ UNCHANGED <<chat, cross_signing, ui, store, locks, sdk, hist, disk, nextHid>>

\* step 5: client.sync_once(SyncSettings::default()).await?
LoginSync(t) ==
    /\ At(t, "login_sync")
    /\ \/ task' = [task EXCEPT ![t] = Goto(t, "login_set_client")]
       \/ task' = [task EXCEPT ![t] = Fail(t, "Initial sync failed")]
    /\ UNCHANGED <<chat, cross_signing, ui, store, locks, sdk, hist, disk, nextHid>>

\* step 6, first statement: *state.client.write().await = Some(client)
LoginSetClient(t) ==
    /\ At(t, "login_set_client")
    /\ clientReaders = {}
    /\ client' = task[t].lc
    /\ vreq' = [f \in Flows |-> NoRequest]
    /\ task' = [task EXCEPT ![t] = Goto(t, "login_set_user")]
    /\ UNCHANGED <<chat, cross_signing, ui, user_id, verification_flow_id, locks, nextFlow, hist, disk, nextHid>>

\* step 6, second statement: *state.user_id.write().await = Some(user_id.clone())
LoginSetUser(t) ==
    /\ At(t, "login_set_user")
    /\ user_id' = task[t].lc.user
    /\ task' = [task EXCEPT ![t] = [Succeed(t, "Login successful") EXCEPT
                                       !.val = task[t].lc.user]]
    /\ replaced' = user_id
    /\ lastLogin' = task[t].lc
    /\ UNCHANGED <<chat, cross_signing, ui, client, verification_flow_id, locks, sdk, cancelledSeen, disk, nextHid>>

(* ---------------------------- check_session ---------------------------- *)
\* let user_id = state.user_id.read().await; Ok(user_id.clone())
CheckSession(t) ==
    /\ Invoked(t, "check_session")
    /\ task' = [task EXCEPT ![t] = [IdleTask EXCEPT !.cmd = "check_session", !.pc = "ret",
                                       !.ok = TRUE, !.val = user_id]]
    /\ UNCHANGED <<chat, cross_signing, ui, store, locks, sdk, hist, disk, nextHid>>

(* ---------------------------- logout ----------------------------------- *)
\* step 1, first statement: let client_read = state.client.read().await
LogoutStart(t) ==
    /\ Invoked(t, "logout")
    /\ clientReaders' = clientReaders \cup {t}
    /\ task' = [task EXCEPT ![t] = [IdleTask EXCEPT !.cmd = "logout", !.pc = "logout_remote",
                                       !.lc = client, !.val = user_id,
                                       !.fl = verification_flow_id]]
    /\ UNCHANGED <<chat, cross_signing, ui, store, flowReaders, sdk, hist, disk, nextHid>>

\* step 1: if let Some(client) = client_read.as_ref() { client.logout().await?; }
\*         drop(client_read)
LogoutRemote(t) ==
    /\ At(t, "logout_remote")
    /\ clientReaders' = clientReaders \ {t}
    /\ \/ task' = [task EXCEPT ![t] = Goto(t, "logout_clear_client")]
       \/ /\ client # NoClient
          /\ task' = [task EXCEPT ![t] = Fail(t, "Logout failed")]
    /\ UNCHANGED <<chat, cross_signing, ui, store, flowReaders, sdk, hist, disk, nextHid>>

\* step 2: *state.client.write().await = None
LogoutClearClient(t) ==
    /\ At(t, "logout_clear_client")
    /\ clientReaders = {}
    /\ client' = NoClient
    /\ vreq' = [f \in Flows |-> NoRequest]
    /\ task' = [task EXCEPT ![t] = Goto(t, "logout_clear_user")]
    /\ UNCHANGED <<chat, cross_signing, ui, user_id, verification_flow_id, locks, nextFlow, hist, disk, nextHid>>

\* step 2: *state.user_id.write().await = None
LogoutClearUser(t) ==
    /\ At(t, "logout_clear_user")
    /\ user_id' = NoUser
    /\ task' = [task EXCEPT ![t] = Goto(t, "logout_clear_flow")]
    /\ UNCHANGED <<chat, cross_signing, ui, client, verification_flow_id, locks, sdk, hist, disk, nextHid>>

\* step 2: *state.verification_flow_id.write().await = None
LogoutClearFlow(t) ==
    /\ At(t, "logout_clear_flow")
    /\ flowReaders = {}
    /\ verification_flow_id' = NoFlow
    /\ task' = [task EXCEPT ![t] = Goto(t, "logout_delete")]
    /\ UNCHANGED <<chat, cross_signing, ui, client, user_id, locks, sdk, hist, disk, nextHid>>

\* step 3: the directory is looked up under the user id read from the state now
LogoutDelete(t) ==
    /\ At(t, "logout_delete")
    /\ IF user_id # NoUser /\ disk[sanitize_user_id(user_id)] # "absent"
       THEN \/ /\ disk' = [disk EXCEPT ![sanitize_user_id(user_id)] = "absent"]
               /\ task' = [task EXCEPT ![t] = Succeed(t, "Logged out successfully")]
            \/ /\ disk' = disk                     \* remove_dir_all fails
               /\ task' = [task EXCEPT ![t] = Fail(t, "Failed to clear session")]
       ELSE /\ disk' = disk
            /\ task' = [task EXCEPT ![t] = Succeed(t, "Logged out successfully")]
    /\ UNCHANGED <<chat, cross_signing, ui, store, locks, sdk, hist, nextHid>>

(* ---------------------------- matrix_sync ------------------------------ *)
\* let client_lock = state.client.read().await;
\* let client = client_lock.as_ref().ok_or("Not logged in")?
SyncStart(t) ==
    /\ Invoked(t, "matrix_sync")
    /\ LET t0 == [IdleTask EXCEPT !.cmd = "matrix_sync", !.lc = client]
       IN IF client = NoClient
          THEN /\ task' = [task EXCEPT ![t] = [t0 EXCEPT !.pc = "ret", !.ok = FALSE,
                                                          !.msg = "Not logged in"]]
               /\ clientReaders' = clientReaders
          ELSE /\ task' = [task EXCEPT ![t] = [t0 EXCEPT !.pc = "sync_wait"]]
               /\ clientReaders' = clientReaders \cup {t}
    /\ UNCHANGED <<chat, cross_signing, ui, store, flowReaders, sdk, hist, disk, nextHid>>

\* client.sync_once(SyncSettings::default()).await?
SyncDone(t) ==
    /\ At(t, "sync_wait")
    /\ clientReaders' = clientReaders \ {t}
    /\ \/ task' = [task EXCEPT ![t] = Succeed(t, "Synced successfully")]
       \/ task' = [task EXCEPT ![t] = Fail(t, "Sync failed")]
    /\ UNCHANGED <<chat, cross_signing, ui, store, flowReaders, sdk, hist, disk, nextHid>>

(* ---------------------------- get_messages ----------------------------- *)
\* room_id.parse(): a room id starts with the sigil '!'
RoomIdParses(id) == Len(id) > 0 /\ id[1] = "!"

\* client.get_room(&room_id_parsed): the rooms the session is a member of
GetRoom_Any(id) == TRUE

GetRoom(id) == id \in JoinedRooms

\* the limit the request carries: the parameter is named _limit and is never
\* read, and the options are built by MessagesOptions::backward() alone
RequestedLimit(limit) == SdkDefaultLimit

TimelineOf(r) == IF r \in DOMAIN timeline THEN timeline[r] ELSE <<>>

Min(a, b) == IF a <= b THEN a ELSE b

\* the homeserver's answers to /messages for room r, backward from token tok
\* (from the newest event without one), at most lim events, newest first; "end"
\* is the token to continue from, absent at the start of the room; a homeserver
\* may also hand out a token there, and then answers it with an empty chunk
ServerMessages(r, tok, lim, hid) ==
    LET tl == TimelineOf(r)
        start == IF tok = NoToken THEN Len(tl) ELSE Min(tok.pos, Len(tl))
        k == Min(lim, start)
        ends == IF start - k > 0 THEN {Token(r, start - k, hid)}
                ELSE {NoToken, Token(r, 0, hid)}
    IN {[chunk |-> [i \in 1..k |-> tl[start + 1 - i]], end |-> e] : e \in ends}

\* timeline_event.timestamp.map(|ts| ts.get().into()).unwrap_or(0)
TimestampOf(e) == IF e.ts = NoTimestamp THEN 0 ELSE e.ts

\* match &original.content.msgtype { Text, Notice, Emote, _ => continue }
SupportedMsgtypes == {"Text", "Notice", "Emote"}
BodyOf(content) == IF content = "Emote" THEN "* hi" ELSE "hi"

\* one iteration of the loop over messages_response.chunk: the messages it pushes
MapEvent(e) ==
    IF e.kind = "UnableToDecrypt"
    THEN <<[sender |-> "[Encrypted]", body |-> "Waiting for encryption keys...",
            timestamp |-> TimestampOf(e)]>>
    ELSE IF e.content \in SupportedMsgtypes
    THEN <<[sender |-> e.sender, body |-> BodyOf(e.content), timestamp |-> TimestampOf(e)]>>
    ELSE <<>>     \* deserialize() failed, not a room message, redacted, or `continue`

RECURSIVE MapChunk(_)
MapChunk(chunk) ==
    IF chunk = <<>> THEN <<>> ELSE MapEvent(Head(chunk)) \o MapChunk(Tail(chunk))

\* result.reverse()
Reverse(q) == [i \in 1..Len(q) |-> q[Len(q) + 1 - i]]

HasMore_CursorOnly(next_token, chunk) == next_token # NoToken

\* next_token.is_some() && messages_response.chunk.len() > 0
HasMore(next_token, chunk) == next_token # NoToken /\ Len(chunk) > 0

\* step 5: the MessagesResponse
BuildPage(chunk, end) ==
    [messages |-> Reverse(MapChunk(chunk)), has_more |-> HasMore(end, chunk),
     next_token |-> end]

\* step 1: the client, the room id and the room
GetMessagesStart(t, room_id, limit, from_token) ==
    /\ Invoked(t, "get_messages")
    /\ LET t0 == [IdleTask EXCEPT !.cmd = "get_messages", !.lc = client, !.room = room_id,
                                  !.lim = limit, !.tok = from_token,
                                  !.prev = IF from_token # NoToken THEN lastPage ELSE NoFetch]
           out(m) == /\ task' = [task EXCEPT ![t] = [t0 EXCEPT !.pc = "ret", !.ok = FALSE,
                                                               !.msg = m]]
                     /\ clientReaders' = clientReaders
       IN IF client = NoClient THEN out("Not logged in")
          ELSE IF ~RoomIdParses(room_id) THEN out("Invalid room ID")
          ELSE IF ~GetRoom(room_id) THEN out("Room not found")
          ELSE /\ task' = [task EXCEPT ![t] = [t0 EXCEPT !.pc = "msgs_fetch"]]
               /\ clientReaders' = clientReaders \cup {t}
    /\ UNCHANGED <<chat, cross_signing, ui, store, flowReaders, sdk, hist, disk, nextHid>>

\* steps 2 to 5: room.messages(options).await?, the loop over the chunk, the response
GetMessagesFetch(t) ==
    /\ At(t, "msgs_fetch")
    /\ clientReaders' = clientReaders \ {t}
    /\ \/ /\ task[t].tok # NoToken => task[t].tok.room = task[t].room
          /\ \E r \in ServerMessages(task[t].room, task[t].tok, RequestedLimit(task[t].lim),
                                     task[t].lc.hid) :
                LET page == BuildPage(r.chunk, r.end)
                IN /\ task' = [task EXCEPT ![t] = [Succeed(t, "") EXCEPT !.chunk = r.chunk,
                                                       !.end = r.end, !.page = page]]
                   /\ lastPage' = [room |-> task[t].room, page |-> page]
       \/ /\ task' = [task EXCEPT ![t] = Fail(t, "Failed to fetch messages")]
          /\ lastPage' = lastPage
    /\ UNCHANGED <<timeline, app, closure, cross_signing, ui, store, flowReaders, sdk, hist,
                   disk, nextHid>>

(* ---------------------------- the SDK's verification requests ---------- *)
AllDevices == {"D0", "D1", "D2"}
\* client.device_id(): the device this client logged in as
OwnDevice == "D0"

\* every duplicate-free sequence over AllDevices: the orders devices() can iterate in
DeviceLists ==
    {<<>>} \cup {<<a>> : a \in AllDevices}
    \cup {s \in [1..2 -> AllDevices] : s[1] # s[2]}
    \cup {s \in [1..3 -> AllDevices] : Cardinality({s[i] : i \in 1..3}) = 3}

\* the device list with the filter left out
OtherDevices_All(ds, own) == ds

\* devices.devices().filter(|d| d.device_id() != our_device_id).collect()
RECURSIVE OtherDevices(_, _)
OtherDevices(ds, own) ==
    IF ds = <<>> THEN <<>>
    ELSE IF Head(ds) # own THEN <<Head(ds)>> \o OtherDevices(Tail(ds), own)
         ELSE OtherDevices(Tail(ds), own)

\* encryption.get_verification_request(user_id, flow_id): the request, if the
\* client knows one under that flow id.  Requests live in the memory of the
\* Client that made them and go when MatrixState.client is overwritten.
Known(f) == f # NoFlow /\ vreq[f].phase # "none"
Terminal(r) == r.phase \in {"cancelled", "done"}
\* a request that has ended: its SAS is gone with it
Ended(p) == [phase |-> p, sas |-> "none"]

\* a request the engine can still reach: recorded, or about to be recorded.
\* A request whose flow id was overwritten is never looked up again, and the
\* model stops following what the other device does with it.
Reachable(f) ==
    \/ verification_flow_id = f
    \/ \E t \in Tasks : task[t].pc = "req_record" /\ task[t].n = f

\* what the model keeps of a request whose flow id is overwritten: whether it
\* had ended, or was left open
Orphaned(r) ==
    IF r.phase \in {"none", "cancelled", "done"} THEN [r EXCEPT !.sas = "none"]
    ELSE [phase |-> "open", sas |-> "none"]

\* the other device accepts the request
PeerAccept(f) ==
    /\ Reachable(f)
    /\ vreq[f].phase = "requested"
    /\ vreq' = [vreq EXCEPT ![f].phase = "ready"]
    /\ UNCHANGED <<chat, cross_signing, ui, store, locks, nextFlow, hist, disk, nextHid, task>>

\* the other device cancels the request
PeerCancel(f) ==
    /\ Reachable(f)
    /\ vreq[f].phase \in {"requested", "ready"}
    /\ vreq' = [vreq EXCEPT ![f] = Ended("cancelled")]
    /\ UNCHANGED <<chat, cross_signing, ui, store, locks, nextFlow, hist, disk, nextHid, task>>

\* the other device answers the accepted SAS with its key: the emoji exist
PeerKey(f) ==
    /\ Reachable(f)
    /\ vreq[f].phase = "ready"
    /\ vreq[f].sas = "accepted"
    /\ vreq' = [vreq EXCEPT ![f].sas = "keys"]
    /\ UNCHANGED <<chat, cross_signing, ui, store, locks, nextFlow, hist, disk, nextHid, task>>

\* the other device confirms too: the request is done
PeerDone(f) ==
    /\ Reachable(f)
    /\ vreq[f].phase = "ready"
    /\ vreq[f].sas = "confirmed"
    /\ vreq' = [vreq EXCEPT ![f] = Ended("done")]
    /\ UNCHANGED <<chat, cross_signing, ui, store, locks, nextFlow, hist, disk, nextHid, task>>

Peer == \E f \in Flows : PeerAccept(f) \/ PeerCancel(f) \/ PeerKey(f) \/ PeerDone(f)

(* ---------------------------- check_verification_status --------------- *)
\* what encryption.cross_signing_status() can say of the account
CrossSigningStates == {"unavailable", "incomplete", "complete"}

\* the result with needs_verification stuck at true
VerificationStatus_AlwaysNeeds(is_verified) == <<TRUE, is_verified>>

\* VerificationStatus { needs_verification: !is_verified, is_verified }
VerificationStatus(is_verified) == <<~is_verified, is_verified>>

\* the client is read under a read guard held to the end of the command
StatusStart(t) ==
    /\ Invoked(t, "check_verification_status")
    /\ LET t0 == [IdleTask EXCEPT !.cmd = "check_verification_status", !.lc = client,
                                  !.fl = verification_flow_id]
       IN IF client = NoClient
          THEN /\ task' = [task EXCEPT ![t] = [t0 EXCEPT !.pc = "ret", !.ok = FALSE,
                                                          !.msg = "Not logged in"]]
               /\ clientReaders' = clientReaders
          ELSE /\ task' = [task EXCEPT ![t] = [t0 EXCEPT !.pc = "status_query"]]
               /\ clientReaders' = clientReaders \cup {t}
    /\ UNCHANGED <<chat, cross_signing, ui, store, flowReaders, sdk, hist, disk, nextHid>>

\* let status = encryption.cross_signing_status().await?;
\* let is_verified = status.is_complete(); Ok(VerificationStatus { .. })
StatusQuery(t) ==
    /\ At(t, "status_query")
    /\ IF cross_signing = "unavailable"
       THEN task' = [task EXCEPT ![t] = Fail(t, "Cross-signing not available")]
       ELSE task' = [task EXCEPT ![t] = [Succeed(t, "status") EXCEPT
                        !.val = VerificationStatus(cross_signing = "complete")]]
    /\ clientReaders' = clientReaders \ {t}
    /\ UNCHANGED <<chat, cross_signing, ui, store, flowReaders, sdk, hist, disk, nextHid>>

(* ---------------------------- verify_with_recovery_key ----------------- *)
Key == <<"k">>
KeyPadded == <<" ", "k">>
RecoveryKeys == {Empty, Blank, Key, KeyPadded}

\* the test without the trim
RecoveryKeyPresent_NoTrim(key) == key # <<>>

\* step 1: !recovery_key.trim().is_empty()
RecoveryKeyPresent(key) == Trim(key) # <<>>

\* steps 1 and 2: validate the input, then read the client under a read guard
RecoverStart(t, key) ==
    /\ Invoked(t, "verify_with_recovery_key")
    /\ LET t0 == [IdleTask EXCEPT !.cmd = "verify_with_recovery_key", !.un = key,
                                  !.fl = verification_flow_id]
       IN IF ~RecoveryKeyPresent(key)
          THEN /\ task' = [task EXCEPT ![t] = [t0 EXCEPT !.pc = "ret", !.ok = FALSE,
                                                          !.msg = "Recovery key is required"]]
               /\ clientReaders' = clientReaders
          ELSE IF client = NoClient
          THEN /\ task' = [task EXCEPT ![t] = [t0 EXCEPT !.pc = "ret", !.ok = FALSE,
                                                          !.msg = "Client is not logged in"]]
               /\ clientReaders' = clientReaders
          ELSE /\ task' = [task EXCEPT ![t] = [t0 EXCEPT !.pc = "recover_run", !.lc = client]]
               /\ clientReaders' = clientReaders \cup {t}
    /\ UNCHANGED <<chat, cross_signing, ui, store, flowReaders, sdk, hist, disk, nextHid>>

\* step 3: recovery.recover(&recovery_key).await?
RecoverRun(t) ==
    /\ At(t, "recover_run")
    /\ \/ /\ cross_signing # "unavailable"
          /\ cross_signing' = "complete"
          /\ task' = [task EXCEPT ![t] = Succeed(t, "Recovery key verification completed")]
       \/ /\ cross_signing' = cross_signing
          /\ task' = [task EXCEPT ![t] = Fail(t, "Failed to verify with recovery key")]
    /\ clientReaders' = clientReaders \ {t}
    /\ UNCHANGED <<chat, ui, store, flowReaders, sdk, hist, disk, nextHid>>

(* ---------------------------- request_verification --------------------- *)
\* the client is read under a read guard held to the end of the command
ReqStart(t) ==
    /\ Invoked(t, "request_verification")
    /\ LET t0 == [IdleTask EXCEPT !.cmd = "request_verification", !.lc = client,
                                  !.fl = verification_flow_id]
       IN IF client = NoClient
          THEN /\ task' = [task EXCEPT ![t] = [t0 EXCEPT !.pc = "ret", !.ok = FALSE,
                                                          !.msg = "Not logged in"]]
               /\ clientReaders' = clientReaders
          ELSE /\ task' = [task EXCEPT ![t] = [t0 EXCEPT !.pc = "req_sync"]]
               /\ clientReaders' = clientReaders \cup {t}
    /\ UNCHANGED <<chat, cross_signing, ui, store, flowReaders, sdk, hist, disk, nextHid>>

\* the sync pass with its error dropped instead of returned by `?`
ReqSync_KeepsGoing(t) ==
    /\ At(t, "req_sync")
    /\ \/ /\ task' = [task EXCEPT ![t] = [Goto(t, "req_devices") EXCEPT !.synced = TRUE]]
          /\ clientReaders' = clientReaders
       \/ /\ task' = [task EXCEPT ![t] = Goto(t, "req_devices")]
          /\ clientReaders' = clientReaders
    /\ UNCHANGED <<chat, cross_signing, ui, store, flowReaders, sdk, hist, disk, nextHid>>

\* step 1: client.sync_once(SyncSettings::default()).await?
ReqSync(t) ==
    /\ At(t, "req_sync")
    /\ \/ /\ task' = [task EXCEPT ![t] = [Goto(t, "req_devices") EXCEPT !.synced = TRUE]]
          /\ clientReaders' = clientReaders
       \/ /\ task' = [task EXCEPT ![t] = Fail(t, "Sync failed")]
          /\ clientReaders' = clientReaders \ {t}
    /\ UNCHANGED <<chat, cross_signing, ui, store, flowReaders, sdk, hist, disk, nextHid>>

\* step 3 on the device list ds that get_user_devices returned
ReqFilter(t, ds) ==
    LET others == OtherDevices(ds, OwnDevice)
    IN IF others = <<>>
       THEN /\ task' = [task EXCEPT ![t] = Fail(t, "No other devices found")]
            /\ clientReaders' = clientReaders \ {t}
       ELSE /\ task' = [task EXCEPT ![t] = [@ EXCEPT !.pc = "req_send", !.devs = others]]
            /\ clientReaders' = clientReaders

\* steps 2 and 3: get_user_devices(user_id).await?, then drop the current device
ReqDevices(t) ==
    /\ At(t, "req_devices")
    /\ \/ /\ task' = [task EXCEPT ![t] = Fail(t, "Failed to get devices")]
          /\ clientReaders' = clientReaders \ {t}
       \/ \E ds \in DeviceLists : ReqFilter(t, ds)
    /\ UNCHANGED <<chat, cross_signing, ui, store, flowReaders, sdk, hist, disk, nextHid>>

\* the loop that goes on to the next device after a request was accepted
ReqSend_KeepsGoing(t) ==
    /\ At(t, "req_send")
    /\ IF task[t].devs = <<>>
       THEN /\ task' = [task EXCEPT ![t] =
                           IF task[t].n = 0
                           THEN Fail(t, "Could not send verification request to any device")
                           ELSE [@ EXCEPT !.pc = "req_record"]]
            /\ clientReaders' = IF task[t].n = 0 THEN clientReaders \ {t} ELSE clientReaders
            /\ UNCHANGED <<sdk, cancelledSeen>>
       ELSE \/ /\ nextFlow <= MaxFlows
               /\ vreq' = [vreq EXCEPT ![nextFlow] =
                              [phase |-> "requested", sas |-> "none"]]
               /\ nextFlow' = nextFlow + 1
               /\ cancelledSeen' = 0
               /\ task' = [task EXCEPT ![t] = [@ EXCEPT !.devs = Tail(@), !.n = nextFlow]]
               /\ clientReaders' = clientReaders
            \/ /\ task' = [task EXCEPT ![t] = [@ EXCEPT !.devs = Tail(@)]]
               /\ UNCHANGED <<sdk, clientReaders, cancelledSeen>>
    /\ UNCHANGED <<chat, cross_signing, ui, store, flowReaders, replaced, lastLogin, disk, nextHid>>

\* step 4: for device in other_devices { match device.request_verification().await
ReqSend(t) ==
    /\ At(t, "req_send")
    /\ IF task[t].devs = <<>>
       THEN /\ task' = [task EXCEPT ![t] =
                           Fail(t, "Could not send verification request to any device")]
            /\ clientReaders' = clientReaders \ {t}
            /\ UNCHANGED <<sdk, cancelledSeen>>
       ELSE \/ /\ nextFlow <= MaxFlows                         \* Ok(verification)
               /\ vreq' = [vreq EXCEPT ![nextFlow] =
                              [phase |-> "requested", sas |-> "none"]]
               /\ nextFlow' = nextFlow + 1
               /\ cancelledSeen' = 0
               /\ task' = [task EXCEPT ![t] = [@ EXCEPT !.pc = "req_record",
                                                        !.n = nextFlow]]
               /\ clientReaders' = clientReaders
            \/ /\ task' = [task EXCEPT ![t] = [@ EXCEPT !.devs = Tail(@)]]   \* Err(e)
               /\ UNCHANGED <<sdk, clientReaders, cancelledSeen>>
    /\ UNCHANGED <<chat, cross_signing, ui, store, flowReaders, replaced, lastLogin, disk, nextHid>>

\* step 4: *state.verification_flow_id.write().await = Some(flow_id); return Ok
ReqRecord(t) ==
    /\ At(t, "req_record")
    /\ flowReaders = {}
    /\ verification_flow_id' = task[t].n
    /\ vreq' = [f \in Flows |-> IF f = verification_flow_id /\ f # task[t].n
                                THEN Orphaned(vreq[f]) ELSE vreq[f]]
    /\ clientReaders' = clientReaders \ {t}
    /\ task' = [task EXCEPT ![t] = [Succeed(t, "Verification request sent") EXCEPT
                                       !.fl = task[t].n]]
    /\ UNCHANGED <<chat, cross_signing, ui, client, user_id, flowReaders, nextFlow, hist, disk, nextHid>>

(* ---------------------------- get_verification_emoji ------------------- *)
\* step 1: let flow_id = state.verification_flow_id.read().await;
\*         let flow_id = flow_id.as_ref().ok_or("No active verification")?
\* the guard named flow_id lives to the end of the command
EmojiStart(t) ==
    /\ Invoked(t, "get_verification_emoji")
    /\ LET t0 == [IdleTask EXCEPT !.cmd = "get_verification_emoji", !.lc = client,
                                  !.fl = verification_flow_id]
       IN IF client = NoClient
          THEN /\ task' = [task EXCEPT ![t] = [t0 EXCEPT !.pc = "ret", !.ok = FALSE,
                                                          !.msg = "Not logged in"]]
               /\ UNCHANGED locks
          ELSE IF verification_flow_id = NoFlow
          THEN /\ task' = [task EXCEPT ![t] = [t0 EXCEPT !.pc = "ret", !.ok = FALSE,
                                                          !.msg = "No active verification"]]
               /\ UNCHANGED locks
          ELSE /\ task' = [task EXCEPT ![t] = [t0 EXCEPT !.pc = "emoji_check"]]
               /\ clientReaders' = clientReaders \cup {t}
               /\ flowReaders' = flowReaders \cup {t}
    /\ UNCHANGED <<chat, cross_signing, ui, store, sdk, hist, disk, nextHid>>

\* steps 1 and 2: get_verification_request(..).await.ok_or("Verification not found")?,
\* then the is_cancelled() and is_ready() tests
EmojiCheck(t) ==
    /\ At(t, "emoji_check")
    /\ LET f == task[t].fl
           out(m) == /\ task' = [task EXCEPT ![t] = Fail(t, m)]
                     /\ clientReaders' = clientReaders \ {t}
                     /\ flowReaders' = flowReaders \ {t}
       IN IF ~Known(f)
          THEN out("Verification not found") /\ UNCHANGED cancelledSeen
          ELSE IF vreq[f].phase = "cancelled"
          THEN /\ out("Verification was cancelled")
               /\ cancelledSeen' = IF cancelledSeen < 2 THEN cancelledSeen + 1 ELSE 2
          ELSE IF vreq[f].phase # "ready"
          THEN out("Waiting for other device to accept...") /\ UNCHANGED cancelledSeen
          ELSE /\ task' = [task EXCEPT ![t] = Goto(t, "emoji_start_sas")]
               /\ UNCHANGED <<locks, cancelledSeen>>
    /\ UNCHANGED <<chat, cross_signing, ui, store, sdk, replaced, lastLogin, disk, nextHid>>

\* step 3: verification.start_sas().await?.ok_or("SAS not available ...")?
EmojiStartSas(t) ==
    /\ At(t, "emoji_start_sas")
    /\ LET f == task[t].fl
       IN \/ /\ vreq[f].phase = "ready"                          \* Ok(Some(sas))
             /\ vreq' = [vreq EXCEPT ![f].sas = IF @ = "none" THEN "started" ELSE @]
             /\ task' = [task EXCEPT ![t] = Goto(t, "emoji_accept")]
             /\ UNCHANGED locks
          \/ /\ task' = [task EXCEPT ![t] = Fail(t, "SAS not available")]   \* Ok(None)
             /\ clientReaders' = clientReaders \ {t}
             /\ flowReaders' = flowReaders \ {t}
             /\ vreq' = vreq
          \/ /\ task' = [task EXCEPT ![t] = Fail(t, "Failed to start SAS")]  \* Err(e)
             /\ clientReaders' = clientReaders \ {t}
             /\ flowReaders' = flowReaders \ {t}
             /\ vreq' = vreq
    /\ UNCHANGED <<chat, cross_signing, ui, store, nextFlow, hist, disk, nextHid>>

\* step 3: sas.accept().await?
EmojiAccept(t) ==
    /\ At(t, "emoji_accept")
    /\ LET f == task[t].fl
       IN \/ /\ vreq[f].phase = "ready"
             /\ vreq' = [vreq EXCEPT ![f].sas = IF @ = "started" THEN "accepted" ELSE @]
             /\ task' = [task EXCEPT ![t] = Goto(t, "emoji_sleep")]
             /\ UNCHANGED locks
          \/ /\ task' = [task EXCEPT ![t] = Fail(t, "Failed to accept SAS")]
             /\ clientReaders' = clientReaders \ {t}
             /\ flowReaders' = flowReaders \ {t}
             /\ vreq' = vreq
    /\ UNCHANGED <<chat, cross_signing, ui, store, nextFlow, hist, disk, nextHid>>

\* emoji handed out as soon as the request is ready, keys exchanged or not
EmojiOf_AnySas(r) == IF r.phase = "ready" THEN <<"emoji">> ELSE <<>>

\* sas.emoji(): Some once both keys are exchanged and the request is live
EmojiOf(r) == IF r.phase = "ready" /\ r.sas \in {"keys", "confirmed"}
              THEN <<"emoji">> ELSE <<>>

\* step 4: sleep(1000ms).await; if let Some(emoji) = sas.emoji() { return Ok(list) }
EmojiSleep(t) ==
    /\ At(t, "emoji_sleep")
    /\ LET e == EmojiOf(vreq[task[t].fl])
       IN IF e # <<>>
          THEN task' = [task EXCEPT ![t] = [Succeed(t, "emoji") EXCEPT !.val = e]]
          ELSE task' = [task EXCEPT ![t] = Fail(t, "Emoji not ready yet, keep polling...")]
    /\ clientReaders' = clientReaders \ {t}
    /\ flowReaders' = flowReaders \ {t}
    /\ UNCHANGED <<chat, cross_signing, ui, store, sdk, hist, disk, nextHid>>

(* ---------------------------- confirm_verification --------------------- *)
\* number of completion checks: for _ in 0..20
ConfirmChecks == 20

ConfirmStart(t) ==
    /\ Invoked(t, "confirm_verification")
    /\ LET t0 == [IdleTask EXCEPT !.cmd = "confirm_verification", !.lc = client,
                                  !.fl = verification_flow_id]
       IN IF client = NoClient
          THEN /\ task' = [task EXCEPT ![t] = [t0 EXCEPT !.pc = "ret", !.ok = FALSE,
                                                          !.msg = "Not logged in"]]
               /\ UNCHANGED locks
          ELSE IF verification_flow_id = NoFlow
          THEN /\ task' = [task EXCEPT ![t] = [t0 EXCEPT !.pc = "ret", !.ok = FALSE,
                                                          !.msg = "No active verification"]]
               /\ UNCHANGED locks
          ELSE /\ task' = [task EXCEPT ![t] = [t0 EXCEPT !.pc = "confirm_get"]]
               /\ clientReaders' = clientReaders \cup {t}
               /\ flowReaders' = flowReaders
    /\ UNCHANGED <<chat, cross_signing, ui, store, sdk, hist, disk, nextHid>>

\* step 1: get_verification_request(..).await?, then
\*         verification.start_sas().await?.ok_or("SAS not available")?
ConfirmGet(t) ==
    /\ At(t, "confirm_get")
    /\ LET f == task[t].fl
       IN \/ /\ ~Known(f)
             /\ task' = [task EXCEPT ![t] = Fail(t, "Verification not found")]
             /\ clientReaders' = clientReaders \ {t}
             /\ vreq' = vreq
          \/ /\ Known(f)
             /\ vreq[f].phase = "ready"                          \* Ok(Some(sas))
             /\ vreq' = [vreq EXCEPT ![f].sas = IF @ = "none" THEN "started" ELSE @]
             /\ task' = [task EXCEPT ![t] = Goto(t, "confirm_send")]
             /\ clientReaders' = clientReaders
          \/ /\ Known(f)                             \* Ok(None) or Err(e)
             /\ task' = [task EXCEPT ![t] = Fail(t, "SAS not available")]
             /\ clientReaders' = clientReaders \ {t}
             /\ vreq' = vreq
    /\ UNCHANGED <<chat, cross_signing, ui, store, flowReaders, nextFlow, hist, disk, nextHid>>

\* whether sas.confirm() has a short code to confirm
CanConfirm(r) == r.phase = "ready" /\ r.sas \in {"keys", "confirmed"}

\* the command that returns as soon as the confirmation is sent
ConfirmSend_NoSync(t) ==
    /\ At(t, "confirm_send")
    /\ CanConfirm(vreq[task[t].fl])
    /\ vreq' = [vreq EXCEPT ![task[t].fl].sas = "confirmed"]
    /\ task' = [task EXCEPT ![t] = [Succeed(t, "Verification confirmed and complete!")
                                       EXCEPT !.touched = TRUE]]
    /\ clientReaders' = clientReaders \ {t}
    /\ UNCHANGED <<chat, cross_signing, ui, store, flowReaders, nextFlow, hist, disk, nextHid>>

\* step 2: sas.confirm().await?  The SDK sends the confirmation when the SAS
\* holds the exchanged keys; in any other state of the SAS it sends nothing and
\* still returns Ok(()).
ConfirmSend(t) ==
    /\ At(t, "confirm_send")
    /\ LET f == task[t].fl
       IN \/ /\ CanConfirm(vreq[f])
             /\ vreq' = [vreq EXCEPT ![f].sas = "confirmed"]
             /\ task' = [task EXCEPT ![t] = [@ EXCEPT !.pc = "confirm_wait", !.n = 0,
                                                      !.touched = TRUE]]
             /\ clientReaders' = clientReaders
          \/ /\ ~CanConfirm(vreq[f])
             /\ vreq' = vreq
             /\ task' = [task EXCEPT ![t] = [@ EXCEPT !.pc = "confirm_wait", !.n = 0]]
             /\ clientReaders' = clientReaders
          \/ /\ task' = [task EXCEPT ![t] = Fail(t, "Failed to confirm")]
             /\ clientReaders' = clientReaders \ {t}
             /\ vreq' = vreq
    /\ UNCHANGED <<chat, cross_signing, ui, store, flowReaders, nextFlow, hist, disk, nextHid>>

\* the wait that gives up with an error when the window has elapsed
ConfirmWait_FailsOnTimeout(t) ==
    /\ At(t, "confirm_wait")
    /\ IF task[t].n >= ConfirmChecks
       THEN /\ task' = [task EXCEPT ![t] = Fail(t, "Verification did not complete")]
            /\ clientReaders' = clientReaders \ {t}
       ELSE /\ task' = [task EXCEPT ![t] =
                           IF Known(task[t].fl) /\ vreq[task[t].fl].phase = "done"
                           THEN [@ EXCEPT !.pc = "confirm_sync", !.n = @ + 1]
                           ELSE [@ EXCEPT !.n = @ + 1]]
            /\ clientReaders' = clientReaders
    /\ UNCHANGED <<chat, cross_signing, ui, store, flowReaders, sdk, hist, disk, nextHid>>

\* step 3: one round of the completion wait: sleep(500ms), then is_done()
ConfirmWait(t) ==
    /\ At(t, "confirm_wait")
    /\ IF task[t].n >= ConfirmChecks
       THEN task' = [task EXCEPT ![t] = Goto(t, "confirm_sync")]
       ELSE IF Known(task[t].fl) /\ vreq[task[t].fl].phase = "done"
            THEN task' = [task EXCEPT ![t] = [@ EXCEPT !.pc = "confirm_sync",
                                                        !.n = @ + 1]]
            ELSE task' = [task EXCEPT ![t] = [@ EXCEPT !.n = @ + 1]]
    /\ UNCHANGED <<chat, cross_signing, ui, store, locks, sdk, hist, disk, nextHid>>

\* step 4: client.sync_once(SyncSettings::default()).await?
ConfirmSync(t) ==
    /\ At(t, "confirm_sync")
    /\ clientReaders' = clientReaders \ {t}
    /\ \/ task' = [task EXCEPT ![t] = [Succeed(t, "Verification confirmed and complete!")
                                          EXCEPT !.synced = TRUE]]
       \/ task' = [task EXCEPT ![t] = Fail(t, "Sync failed")]
    /\ UNCHANGED <<chat, cross_signing, ui, store, flowReaders, sdk, hist, disk, nextHid>>

(* ---------------------------- cancel_verification ---------------------- *)
CancelStart(t) ==
    /\ Invoked(t, "cancel_verification")
    /\ LET t0 == [IdleTask EXCEPT !.cmd = "cancel_verification", !.lc = client,
                                  !.fl = verification_flow_id]
       IN IF client = NoClient
          THEN /\ task' = [task EXCEPT ![t] = [t0 EXCEPT !.pc = "ret", !.ok = FALSE,
                                                          !.msg = "Not logged in"]]
               /\ clientReaders' = clientReaders
          ELSE IF verification_flow_id = NoFlow
          THEN /\ task' = [task EXCEPT ![t] = [t0 EXCEPT !.pc = "ret", !.ok = FALSE,
                                                          !.msg = "No active verification"]]
               /\ clientReaders' = clientReaders
          ELSE /\ task' = [task EXCEPT ![t] = [t0 EXCEPT !.pc = "cancel_get"]]
               /\ clientReaders' = clientReaders \cup {t}
    /\ UNCHANGED <<chat, cross_signing, ui, store, flowReaders, sdk, hist, disk, nextHid>>

\* let verification = encryption.get_verification_request(user_id, flow_id).await?
CancelGet(t) ==
    /\ At(t, "cancel_get")
    /\ IF Known(task[t].fl)
       THEN /\ task' = [task EXCEPT ![t] = Goto(t, "cancel_send")]
            /\ clientReaders' = clientReaders
       ELSE /\ task' = [task EXCEPT ![t] = Fail(t, "Verification not found")]
            /\ clientReaders' = clientReaders \ {t}
    /\ UNCHANGED <<chat, cross_signing, ui, store, flowReaders, sdk, hist, disk, nextHid>>

\* verification.cancel().await?
CancelSend(t) ==
    /\ At(t, "cancel_send")
    /\ \/ /\ vreq' = [vreq EXCEPT ![task[t].fl] =
                         IF Terminal(@) THEN @ ELSE Ended("cancelled")]
          /\ task' = [task EXCEPT ![t] = Goto(t, "cancel_clear")]
          /\ clientReaders' = clientReaders
       \/ /\ vreq' = vreq
          /\ task' = [task EXCEPT ![t] = Fail(t, "Failed to cancel")]
          /\ clientReaders' = clientReaders \ {t}
    /\ UNCHANGED <<chat, cross_signing, ui, store, flowReaders, nextFlow, hist, disk, nextHid>>

\* *state.verification_flow_id.write().await = None
CancelClear(t) ==
    /\ At(t, "cancel_clear")
    /\ flowReaders = {}
    /\ verification_flow_id' = NoFlow
    /\ vreq' = [f \in Flows |-> IF f = verification_flow_id
                                THEN Orphaned(vreq[f]) ELSE vreq[f]]
    /\ clientReaders' = clientReaders \ {t}
    /\ task' = [task EXCEPT ![t] = Succeed(t, "Verification cancelled")]
    /\ UNCHANGED <<chat, cross_signing, ui, client, user_id, flowReaders, nextFlow, hist, disk, nextHid>>

(* ---------------------------- the caller ------------------------------- *)
\* the caller takes the result of a finished command
Return(t) ==
    /\ At(t, "ret")
    /\ task' = [task EXCEPT ![t] = IdleTask]
    /\ UNCHANGED <<chat, cross_signing, ui, store, locks, sdk, hist, disk, nextHid>>

Login(t) ==
    \/ \E hs \in Homeservers, un \in Usernames, pw \in Passwords : LoginStart(t, hs, un, pw)
    \/ LoginBuild(t)
    \/ LoginAuth(t)
    \/ LoginSync(t)
    \/ LoginSetClient(t)
    \/ LoginSetUser(t)

Logout(t) ==
    \/ LogoutStart(t)
    \/ LogoutRemote(t)
    \/ LogoutClearClient(t)
    \/ LogoutClearUser(t)
    \/ LogoutClearFlow(t)
    \/ LogoutDelete(t)

Sync(t) == SyncStart(t) \/ SyncDone(t)

RequestVerification(t) ==
    ReqStart(t) \/ ReqSync(t) \/ ReqDevices(t) \/ ReqSend(t) \/ ReqRecord(t)

GetVerificationEmoji(t) ==
    EmojiStart(t) \/ EmojiCheck(t) \/ EmojiStartSas(t) \/ EmojiAccept(t) \/ EmojiSleep(t)

ConfirmVerification(t) ==
    ConfirmStart(t) \/ ConfirmGet(t) \/ ConfirmSend(t) \/ ConfirmWait(t) \/ ConfirmSync(t)

CancelVerification(t) ==
    CancelStart(t) \/ CancelGet(t) \/ CancelSend(t) \/ CancelClear(t)

Step(t) ==
    \/ Login(t)
    \/ Logout(t)
    \/ CheckSession(t)
    \/ Sync(t)
    \/ RequestVerification(t)
    \/ GetVerificationEmoji(t)
    \/ ConfirmVerification(t)
    \/ CancelVerification(t)
    \/ Return(t)

Next == Step(1) \/ Peer

Spec == Init /\ [][Next]_vars

\* the authentication commands alone, one call at a time
Auth(t) == Login(t) \/ Logout(t) \/ CheckSession(t) \/ Sync(t) \/ Return(t)

NextAuth == Auth(1)

SpecAuth == Init /\ [][NextAuth]_vars

\* the authentication commands called concurrently: each task is one invocation,
\* and the tasks interleave at the await points
NextConc == \E t \in Tasks : Auth(t)

SpecConc == Init /\ [][NextConc]_vars

(* ---------------------------- VerificationDialog ----------------------- *)
\* const maxAttempts = 60
maxAttempts == 60

FreeTask == [IdleTask EXCEPT !.pc = "free"]
\* invoke(c): the call is handed to the backend, which starts it later
Call(c) == [IdleTask EXCEPT !.pc = "call", !.cmd = c]
\* invoke runs the command in a fresh task: the first free slot stands for it
FreeSlot(t) == At(t, "free") /\ \A u \in Tasks : u < t => ~At(u, "free")
\* a state setter of the dialog: has no effect once the dialog is unmounted
SetDlg(d) == IF dlg.open THEN d ELSE dlg

\* the state in which the dialog opens: logged in as UserA, showVerification set
InitUI ==
    /\ client = [user |-> ServerUserId(UserA), hid |-> 1]
    /\ user_id = ServerUserId(UserA)
    /\ verification_flow_id = NoFlow
    /\ clientReaders = {}
    /\ flowReaders = {}
    /\ vreq = [f \in Flows |-> NoRequest]
    /\ nextFlow = 1
    /\ replaced = NoUser
    /\ lastLogin = [user |-> ServerUserId(UserA), hid |-> 1]
    /\ cancelledSeen = 0
    /\ disk = [d \in DirNames |-> IF d = sanitize_user_id(UserA) THEN "store" ELSE "absent"]
    /\ nextHid = 2
    /\ task = [t \in Tasks |-> FreeTask]
    /\ dlg = [NoDialog EXCEPT !.open = TRUE]
    /\ timer = NoTimer
    /\ cb = [t \in Tasks |-> "none"]
    /\ declared = [f \in Flows |-> {}]
    /\ cross_signing = "incomplete"
    /\ ChatClosed

\* startVerification, up to its await; one request at a time
ClickStart(t) ==
    /\ dlg.open /\ dlg.step = "request"
    /\ FreeSlot(t)
    /\ \A u \in Tasks : cb[u] # "start"
    /\ task' = [task EXCEPT ![t] = Call("request_verification")]
    /\ cb' = [cb EXCEPT ![t] = "start"]
    /\ UNCHANGED <<chat, cross_signing, store, locks, sdk, hist, disk, nextHid, dlg, timer, declared>>

\* startVerification, after its await: setStep("waiting"); pollForEmoji(), or the catch
StartDone(t) ==
    /\ At(t, "ret") /\ cb[t] = "start"
    /\ IF task[t].ok
       THEN /\ dlg' = SetDlg([dlg EXCEPT !.step = "waiting", !.flow = task[t].fl])
            /\ timer' = [active |-> TRUE, attempts |-> 0]
       ELSE /\ dlg' = SetDlg([dlg EXCEPT !.error = "failed"])
            /\ timer' = timer
    /\ task' = [task EXCEPT ![t] = FreeTask]
    /\ cb' = [cb EXCEPT ![t] = "none"]
    /\ UNCHANGED <<chat, cross_signing, store, locks, sdk, hist, disk, nextHid, declared>>

\* the interval fires: attempts++, then the callback awaits getVerificationEmoji()
Tick(t) ==
    /\ timer.active
    /\ FreeSlot(t)
    /\ timer' = [timer EXCEPT !.attempts = @ + 1]
    /\ task' = [task EXCEPT ![t] = Call("get_verification_emoji")]
    /\ cb' = [cb EXCEPT ![t] = "poll"]
    /\ UNCHANGED <<chat, cross_signing, store, locks, sdk, hist, disk, nextHid, dlg, declared>>

\* the interval callback after its await: show the emoji and stop the interval,
\* ignore an error, then test attempts >= maxAttempts
PollDone(t) ==
    /\ At(t, "ret") /\ cb[t] = "poll"
    /\ LET got == task[t].ok /\ task[t].val # <<>>
           late == timer.attempts >= maxAttempts
       IN /\ dlg' = SetDlg([dlg EXCEPT !.step = IF got THEN "emoji" ELSE @,
                                       !.error = IF late THEN "timeout" ELSE @])
          /\ timer' = IF got \/ late
                       THEN IF \E u \in Tasks \ {t} : cb[u] = "poll"
                            THEN [timer EXCEPT !.active = FALSE]
                            ELSE NoTimer       \* cleared, and no callback left to read it
                       ELSE timer
          /\ declared' = IF late /\ dlg.open /\ dlg.flow # NoFlow
                         THEN [declared EXCEPT ![dlg.flow] = @ \cup {"TimedOut"}]
                         ELSE declared
    /\ task' = [task EXCEPT ![t] = FreeTask]
    /\ cb' = [cb EXCEPT ![t] = "none"]
    /\ UNCHANGED <<chat, cross_signing, store, locks, sdk, hist, disk, nextHid>>

\* confirmMatch, up to its await; one confirmation at a time
ClickConfirm(t) ==
    /\ dlg.open /\ dlg.step = "emoji"
    /\ FreeSlot(t)
    /\ \A u \in Tasks : cb[u] # "confirm"
    /\ task' = [task EXCEPT ![t] = Call("confirm_verification")]
    /\ cb' = [cb EXCEPT ![t] = "confirm"]
    /\ UNCHANGED <<chat, cross_signing, store, locks, sdk, hist, disk, nextHid, dlg, timer, declared>>

\* confirmMatch, after its await: setTimeout(onVerified, 2000), or the catch
ConfirmDone(t) ==
    /\ At(t, "ret") /\ cb[t] = "confirm"
    /\ dlg' = SetDlg(IF task[t].ok THEN [dlg EXCEPT !.closing = TRUE]
                                   ELSE [dlg EXCEPT !.error = "failed"])
    /\ task' = [task EXCEPT ![t] = FreeTask]
    /\ cb' = [cb EXCEPT ![t] = "none"]
    /\ UNCHANGED <<chat, cross_signing, store, locks, sdk, hist, disk, nextHid, timer, declared>>

\* the timeout set by confirmMatch fires: onVerified() hides the dialog
Verified ==
    /\ dlg.open /\ dlg.closing
    /\ dlg' = NoDialog
    /\ UNCHANGED <<chat, cross_signing, store, locks, sdk, hist, disk, nextHid, task, timer, cb, declared>>

\* handleCancel, up to its await
ClickCancel(t) ==
    /\ dlg.open /\ dlg.step \in {"waiting", "emoji"}
    /\ FreeSlot(t)
    /\ task' = [task EXCEPT ![t] = Call("cancel_verification")]
    /\ cb' = [cb EXCEPT ![t] = "cancel"]
    /\ UNCHANGED <<chat, cross_signing, store, locks, sdk, hist, disk, nextHid, dlg, timer, declared>>

\* handleCancel, after its await: onClose() in the try and in the catch
CancelDone(t) ==
    /\ At(t, "ret") /\ cb[t] = "cancel"
    /\ dlg' = NoDialog
    /\ task' = [task EXCEPT ![t] = FreeTask]
    /\ cb' = [cb EXCEPT ![t] = "none"]
    /\ UNCHANGED <<chat, cross_signing, store, locks, sdk, hist, disk, nextHid, timer, declared>>

\* "Skip for Now": onClose()
Skip ==
    /\ dlg.open /\ dlg.step = "request"
    /\ dlg' = NoDialog
    /\ UNCHANGED <<chat, cross_signing, store, locks, sdk, hist, disk, nextHid, task, timer, cb, declared>>

Dialog(t) ==
    \/ ClickStart(t)
    \/ StartDone(t)
    \/ Tick(t)
    \/ PollDone(t)
    \/ ClickConfirm(t)
    \/ ConfirmDone(t)
    \/ ClickCancel(t)
    \/ CancelDone(t)

Backend(t) ==
    \/ RequestVerification(t)
    \/ GetVerificationEmoji(t)
    \/ ConfirmVerification(t)
    \/ CancelVerification(t)

\* the dialog, the commands it invokes and the other device
NextUI == (\E t \in Tasks : Dialog(t) \/ Backend(t)) \/ Verified \/ Skip \/ Peer

SpecUI == InitUI /\ [][NextUI]_vars

(* ---------------------------- verification, one call at a time --------- *)
\* a started engine: nobody logged in, or logged in as UserA, on an account in
\* any cross-signing state
InitVerif ==
    /\ \/ /\ client = NoClient
          /\ user_id = NoUser
          /\ lastLogin = NoClient
          /\ disk = [d \in DirNames |-> "absent"]
          /\ nextHid = 1
       \/ /\ client = [user |-> ServerUserId(UserA), hid |-> 1]
          /\ user_id = ServerUserId(UserA)
          /\ lastLogin = [user |-> ServerUserId(UserA), hid |-> 1]
          /\ disk = [d \in DirNames |-> IF d = sanitize_user_id(UserA) THEN "store"
                                                                     ELSE "absent"]
          /\ nextHid = 2
    /\ verification_flow_id = NoFlow
    /\ clientReaders = {}
    /\ flowReaders = {}
    /\ vreq = [f \in Flows |-> NoRequest]
    /\ nextFlow = 1
    /\ replaced = NoUser
    /\ cancelledSeen = 0
    /\ task = [t \in Tasks |-> IdleTask]
    /\ dlg = NoDialog
    /\ timer = NoTimer
    /\ cb = [t \in Tasks |-> "none"]
    /\ declared = [f \in Flows |-> {}]
    /\ cross_signing \in CrossSigningStates
    /\ ChatClosed

CheckVerificationStatus(t) == StatusStart(t) \/ StatusQuery(t)

VerifyWithRecoveryKey(t) ==
    \/ \E key \in RecoveryKeys : RecoverStart(t, key)
    \/ RecoverRun(t)

NextVerif ==
    \/ Backend(1)
    \/ CheckVerificationStatus(1)
    \/ VerifyWithRecoveryKey(1)
    \/ Return(1)
    \/ Peer

SpecVerif == InitVerif /\ [][NextVerif]_vars

(* ---------------------------- timeline retrieval, one call at a time --- *)
\* the limits a caller passes: below and above what one request returns
Limits == {1, MaxTimeline}

\* a started engine, logged out, or logged in as UserA with Room1 holding any
\* timeline of at most MaxTimeline events
InitPage ==
    /\ \/ /\ client = NoClient
          /\ user_id = NoUser
          /\ lastLogin = NoClient
          /\ disk = [d \in DirNames |-> "absent"]
          /\ nextHid = 1
          /\ timeline = [r \in JoinedRooms |-> <<>>]
       \/ /\ client = [user |-> ServerUserId(UserA), hid |-> 1]
          /\ user_id = ServerUserId(UserA)
          /\ lastLogin = [user |-> ServerUserId(UserA), hid |-> 1]
          /\ disk = [d \in DirNames |-> IF d = sanitize_user_id(UserA) THEN "store"
                                                                     ELSE "absent"]
          /\ nextHid = 2
          /\ \E tl \in TimelinesOf(MaxTimeline) :
                timeline = [r \in JoinedRooms |-> IF r = Room1 THEN tl ELSE <<>>]
    /\ verification_flow_id = NoFlow
    /\ clientReaders = {}
    /\ flowReaders = {}
    /\ vreq = [f \in Flows |-> NoRequest]
    /\ nextFlow = 1
    /\ replaced = NoUser
    /\ cancelledSeen = 0
    /\ task = [t \in Tasks |-> IdleTask]
    /\ dlg = NoDialog
    /\ timer = NoTimer
    /\ cb = [t \in Tasks |-> "none"]
    /\ declared = [f \in Flows |-> {}]
    /\ cross_signing = "incomplete"
    /\ lastPage = NoFetch
    /\ app = AppStart
    /\ closure = [t \in Tasks |-> NoClosure]

\* the tokens a caller has for room r: none, or the one its latest page carried
TokensFor(r) ==
    {NoToken} \cup IF lastPage.room = r THEN {lastPage.page.next_token} ELSE {}

GetMessages(t) ==
    \/ \E r \in RoomIds, limit \in Limits :
          \E tok \in TokensFor(r) : GetMessagesStart(t, r, limit, tok)
    \/ GetMessagesFetch(t)

NextPage == GetMessages(1) \/ Sync(1) \/ Return(1)

SpecPage == InitPage /\ [][NextPage]_vars

(* ---------------------------- App: the message pane --------------------- *)
\* matrixService.getMessages(roomId, 50, ...)
LoadLimit == 50

TextFrom(sender, ts) == RawEvent([kind |-> "Decrypted", content |-> "Text"], sender, ts)

\* the App after login and loadRooms: logged in as UserA, the two rooms listed,
\* none selected; the second message of Room1 was sent in the same millisecond
\* as the first, by another user
InitChat ==
    /\ client = [user |-> ServerUserId(UserA), hid |-> 1]
    /\ user_id = ServerUserId(UserA)
    /\ verification_flow_id = NoFlow
    /\ clientReaders = {}
    /\ flowReaders = {}
    /\ vreq = [f \in Flows |-> NoRequest]
    /\ nextFlow = 1
    /\ replaced = NoUser
    /\ lastLogin = [user |-> ServerUserId(UserA), hid |-> 1]
    /\ cancelledSeen = 0
    /\ disk = [d \in DirNames |-> IF d = sanitize_user_id(UserA) THEN "store" ELSE "absent"]
    /\ nextHid = 2
    /\ task = [t \in Tasks |-> FreeTask]
    /\ dlg = NoDialog
    /\ timer = NoTimer
    /\ cb = [t \in Tasks |-> "none"]
    /\ declared = [f \in Flows |-> {}]
    /\ cross_signing = "incomplete"
    /\ timeline = [r \in JoinedRooms |->
                     IF r = Room1
                     THEN <<TextFrom("@b:m", 1), TextFrom("@a:m", 1), TextFrom("@a:m", 2)>>
                     ELSE <<TextFrom("@a:m", 1), TextFrom("@b:m", 2), TextFrom("@a:m", 3)>>]
    /\ lastPage = NoFetch
    /\ app = [AppStart EXCEPT !.loggedIn = TRUE]
    /\ closure = [t \in Tasks |-> NoClosure]

\* invoke("get_messages", { roomId, limit, fromToken })
CallGetMessages(r, tok) ==
    [Call("get_messages") EXCEPT !.room = r, !.lim = LoadLimit, !.tok = tok]

\* loadInitialMessages(roomId), up to its await
LoadInitial(t, r) ==
    /\ FreeSlot(t)
    /\ task' = [task EXCEPT ![t] = CallGetMessages(r, NoToken)]
    /\ cb' = [cb EXCEPT ![t] = "loadInitial"]
    /\ closure' = [closure EXCEPT ![t] = [room |-> r, messages |-> <<>>]]

\* onRoomSelect(room), and the effect on [selectedRoom] that follows the render:
\* loadInitialMessages(room.room_id) when the selection changed
SelectRoom(t, r) ==
    /\ app.loggedIn
    /\ IF r = app.selectedRoom
       THEN /\ app' = [app EXCEPT !.nextToken = NoToken, !.hasMoreMessages = TRUE]
            /\ UNCHANGED <<task, cb, closure>>
       ELSE /\ LoadInitial(t, r)
            /\ app' = [app EXCEPT !.selectedRoom = r, !.nextToken = NoToken,
                                  !.hasMoreMessages = TRUE, !.isLoadingMessages = TRUE,
                                  !.messages = <<>>]
    /\ UNCHANGED <<timeline, lastPage, cross_signing, store, locks, sdk, hist, disk, nextHid,
                   dlg, timer, declared>>

\* onRefresh: loadInitialMessages(selectedRoom.room_id)
Refresh(t) ==
    /\ app.loggedIn /\ app.selectedRoom # NoRoom
    /\ LoadInitial(t, app.selectedRoom)
    /\ app' = [app EXCEPT !.isLoadingMessages = TRUE, !.messages = <<>>,
                          !.nextToken = NoToken]
    /\ UNCHANGED <<timeline, lastPage, cross_signing, store, locks, sdk, hist, disk, nextHid,
                   dlg, timer, declared>>

\* loadInitialMessages after its await, with its catch and finally
LoadInitialDone(t) ==
    /\ At(t, "ret") /\ cb[t] = "loadInitial"
    /\ app' = IF task[t].ok
              THEN [app EXCEPT !.messages = task[t].page.messages,
                               !.nextToken = task[t].page.next_token,
                               !.hasMoreMessages = task[t].page.has_more,
                               !.isLoadingMessages = FALSE]
              ELSE [app EXCEPT !.isLoadingMessages = FALSE]
    /\ task' = [task EXCEPT ![t] = FreeTask]
    /\ cb' = [cb EXCEPT ![t] = "none"]
    /\ closure' = [closure EXCEPT ![t] = NoClosure]
    /\ UNCHANGED <<timeline, lastPage, cross_signing, store, locks, sdk, hist, disk, nextHid,
                   dlg, timer, declared>>

\* loadMoreMessages, up to its await; the handler keeps the messages it was
\* rendered with
LoadMore(t) ==
    /\ app.loggedIn
    /\ app.selectedRoom # NoRoom /\ ~app.isLoadingMessages /\ app.hasMoreMessages
    /\ app.nextToken # NoToken
    /\ FreeSlot(t)
    /\ app' = [app EXCEPT !.isLoadingMessages = TRUE]
    /\ task' = [task EXCEPT ![t] = CallGetMessages(app.selectedRoom, app.nextToken)]
    /\ cb' = [cb EXCEPT ![t] = "loadMore"]
    /\ closure' = [closure EXCEPT ![t] = [room |-> app.selectedRoom,
                                          messages |-> app.messages]]
    /\ UNCHANGED <<timeline, lastPage, cross_signing, store, locks, sdk, hist, disk, nextHid,
                   dlg, timer, declared>>

\* response.messages.filter((m) => !existingTimestamps.has(m.timestamp))
NewMessages(fetched, existing) ==
    SelectSeq(fetched, LAMBDA m : \A i \in 1..Len(existing) :
                                     existing[i].timestamp # m.timestamp)

\* loadMoreMessages after its await: setMessages((prev) => [...newMessages, ...prev])
LoadMoreDone(t) ==
    /\ At(t, "ret") /\ cb[t] = "loadMore"
    /\ app' = IF task[t].ok
              THEN [app EXCEPT !.messages = NewMessages(task[t].page.messages,
                                                        closure[t].messages) \o @,
                               !.nextToken = task[t].page.next_token,
                               !.hasMoreMessages = task[t].page.has_more,
                               !.isLoadingMessages = FALSE]
              ELSE [app EXCEPT !.isLoadingMessages = FALSE]
    /\ task' = [task EXCEPT ![t] = FreeTask]
    /\ cb' = [cb EXCEPT ![t] = "none"]
    /\ closure' = [closure EXCEPT ![t] = NoClosure]
    /\ UNCHANGED <<timeline, lastPage, cross_signing, store, locks, sdk, hist, disk, nextHid,
                   dlg, timer, declared>>

\* handleLogout, up to its await
ClickLogout(t) ==
    /\ app.loggedIn
    /\ FreeSlot(t)
    /\ task' = [task EXCEPT ![t] = Call("logout")]
    /\ cb' = [cb EXCEPT ![t] = "logout"]
    /\ UNCHANGED <<chat, cross_signing, store, locks, sdk, hist, disk, nextHid, dlg, timer,
                   declared>>

\* a handler that shows the login view whatever logout answered
LogoutDone_AlwaysOut(t) ==
    /\ At(t, "ret") /\ cb[t] = "logout"
    /\ app' = [app EXCEPT !.loggedIn = FALSE, !.selectedRoom = NoRoom,
                          !.messages = <<>>, !.nextToken = NoToken,
                          !.hasMoreMessages = TRUE]
    /\ dlg' = NoDialog
    /\ task' = [task EXCEPT ![t] = FreeTask]
    /\ cb' = [cb EXCEPT ![t] = "none"]
    /\ UNCHANGED <<timeline, lastPage, closure, cross_signing, store, locks, sdk, hist, disk,
                   nextHid, timer, declared>>

\* handleLogout after its await: the setters of the try, or the catch
LogoutDone(t) ==
    /\ At(t, "ret") /\ cb[t] = "logout"
    /\ app' = IF task[t].ok
              THEN [app EXCEPT !.loggedIn = FALSE, !.selectedRoom = NoRoom,
                               !.messages = <<>>, !.nextToken = NoToken,
                               !.hasMoreMessages = TRUE]
              ELSE app
    /\ dlg' = IF task[t].ok THEN NoDialog ELSE dlg
    /\ task' = [task EXCEPT ![t] = FreeTask]
    /\ cb' = [cb EXCEPT ![t] = "none"]
    /\ UNCHANGED <<timeline, lastPage, closure, cross_signing, store, locks, sdk, hist, disk,
                   nextHid, timer, declared>>

Pane(t) ==
    \/ \E r \in JoinedRooms : SelectRoom(t, r)
    \/ Refresh(t)
    \/ LoadInitialDone(t)
    \/ LoadMore(t)
    \/ LoadMoreDone(t)
    \/ ClickLogout(t)
    \/ LogoutDone(t)

\* the commands the pane invokes, started with the arguments of the call
PaneBackend(t) ==
    \/ /\ At(t, "call")
       /\ GetMessagesStart(t, task[t].room, task[t].lim, task[t].tok)
    \/ GetMessagesFetch(t)
    \/ Logout(t)

NextChat == \E t \in Tasks : Pane(t) \/ PaneBackend(t)

SpecChat == InitChat /\ [][NextChat]_vars

(* ---------------------------- properties ------------------------------- *)
Returned(t, c) == At(t, "ret") /\ task[t].cmd = c
ValidationMsgs == {"All fields are required",
                   "Homeserver URL must start with http:// or https://"}

\* With one command running at a time: a successful login leaves exactly its
\* own Session (its handle, its user id, a non-empty store), and what later
\* commands observe belongs to the latest successful login.
OneSessionSequential ==
    /\ \A t \in Tasks :
         Returned(t, "matrix_login") /\ task[t].ok =>
            /\ client # NoClient
            /\ client = task[t].lc
            /\ user_id = task[t].val
            /\ client.user = user_id
            /\ disk[sanitize_user_id(user_id)] = "store"
    /\ \A t \in Tasks :
         Returned(t, "check_session") => task[t].val \in {NoUser, lastLogin.user}
    /\ \A t \in Tasks :
         task[t].cmd \in {"matrix_sync", "request_verification", "get_verification_emoji",
                          "confirm_verification", "cancel_verification"}
            => task[t].lc \in {NoClient, lastLogin}

\* C1 (as claimed): in every reachable state, of any interleaving of commands,
\* when a login returns success exactly one Session is installed: a connection
\* handle and a user id, both of the same identity, so that no command observes
\* the handle of one identity beside the user id of another.
C1_OneSession ==
    [][\A t \in Tasks :
          LoginSetUser(t) =>
             /\ client' # NoClient
             /\ user_id' # NoUser
             /\ client'.user = user_id']_vars

\* the inputs C2 speaks of
C2_BadInput(hs, un, pw) ==
    \/ hs = <<>> \/ un = <<>> \/ pw = <<>>
    \/ ~(StartsWith(hs, Str_http) \/ StartsWith(hs, Str_https))

\* C2: a login with an empty field or a URL without http:// or https:// returns
\* a validation error in its first step and changes neither the Session Store
\* nor the storage directories, nor does it open a connection.
C2_ValidationFirst ==
    [][\A t \in Tasks :
          At(t, "idle") /\ task'[t].cmd = "matrix_login" =>
             \A hs \in Homeservers, un \in Usernames, pw \in Passwords :
                (C2_BadInput(hs, un, pw) /\ LoginStart(t, hs, un, pw)) =>
                   /\ task'[t].pc = "ret"
                   /\ ~task'[t].ok
                   /\ task'[t].msg \in ValidationMsgs
                   /\ UNCHANGED <<client, user_id, verification_flow_id, disk, nextHid>>]_vars

\* C2 witness: a login was refused for its input while a Session is installed.
C2_Witness ==
    \E t \in Tasks :
        /\ Returned(t, "matrix_login")
        /\ task[t].msg \in ValidationMsgs
        /\ client # NoClient
        /\ user_id = client.user
        /\ disk[sanitize_user_id(user_id)] = "store"

\* C3 (as claimed): a login that fails after validation leaves none of its own
\* Session installed and its storage directory removed.
C3_FailClean ==
    \A t \in Tasks :
        Returned(t, "matrix_login") /\ ~task[t].ok /\ task[t].touched =>
            /\ (task[t].lc = NoClient \/ client # task[t].lc)
            /\ disk[sanitize_user_id(task[t].un)] = "absent"

\* C4 (as claimed): a logout whose remote call failed has still cleared the
\* Session Store and deleted the storage of the session it was called on.
C4_LogoutCleansOnRemoteFailure ==
    \A t \in Tasks :
        Returned(t, "logout") /\ task[t].msg = "Logout failed" =>
            /\ client = NoClient
            /\ user_id = NoUser
            /\ verification_flow_id = NoFlow
            /\ disk[sanitize_user_id(task[t].val)] = "absent"

\* C5 (as claimed): after a successful logout the directory derived from the
\* session's user id does not exist.
C5_LogoutDeletesStorage ==
    \A t \in Tasks :
        Returned(t, "logout") /\ task[t].ok /\ task[t].val # NoUser =>
            disk[sanitize_user_id(task[t].val)] = "absent"

\* C6 (as claimed): check_session never fails and returns a user id exactly
\* when a connection handle is installed, under every interleaving of login,
\* logout and check_session.
C6_RestoreMatchesSession ==
    [][\A t \in Tasks :
          CheckSession(t) =>
             /\ task'[t].ok
             /\ (task'[t].val # NoUser <=> client # NoClient)]_vars

\* C7 (as claimed): when logout has returned, no verification flow id is stored.
C7_LogoutClearsFlow ==
    \A t \in Tasks : Returned(t, "logout") => verification_flow_id = NoFlow

\* C8 (as claimed): when cancel, called with a flow id stored, has returned, no
\* flow id is stored, whether or not the remote cancel succeeded.
C8_CancelClearsFlow ==
    \A t \in Tasks :
        Returned(t, "cancel_verification") /\ task[t].fl # NoFlow =>
            verification_flow_id = NoFlow

\* the state of verification flow f as its caller sees it: what the other
\* device and the engine made of the request, and what the dialog declared
TerminalStates == {"Confirmed", "TimedOut", "Cancelled"}
FlowState(f) ==
    IF vreq[f].phase = "done" THEN "Confirmed"
    ELSE IF "TimedOut" \in declared[f] THEN "TimedOut"
    ELSE IF vreq[f].phase = "cancelled" THEN "Cancelled"
    ELSE IF vreq[f].phase = "none" THEN "None"
    ELSE IF dlg.open /\ dlg.flow = f /\ dlg.step = "emoji" THEN "ShortCodeReady"
    ELSE IF vreq[f].phase = "ready" THEN "Ready"
    ELSE "Requested"

\* C9 (as claimed): once a flow is Cancelled, TimedOut or Confirmed, no later
\* step (a poll result, a confirm, a cancel, a timer tick) gives it another state.
C9_TerminalIsFinal ==
    [][\A f \in Flows :
          FlowState(f) \in TerminalStates => FlowState(f)' = FlowState(f)]_vars

\* C10 (as claimed): once the peer has cancelled, polling the flow returns
\* Cancelled exactly once: never a second time.
C10_CancelledOnce == cancelledSeen <= 1

\* the two results of get_verification_emoji that tell the caller to poll again
NotReadyMsgs == {"Waiting for other device to accept...",
                 "Emoji not ready yet, keep polling..."}

C12_ConfirmOnlyFromShortCodeReady ==
    \A t \in Tasks :
        Returned(t, "confirm_verification") /\ task[t].ok => task[t].touched

\* C13: every round of the completion wait either makes one more check, up to
\* ConfirmChecks of them, or leaves the wait for the final sync; no round of
\* the wait returns an error, so a window that elapses without completion
\* does not fail the command.
C13_BoundedWait ==
    [][\A t \in Tasks :
          (At(t, "confirm_wait") /\ task'[t] # task[t]) =>
             /\ task'[t].pc \in {"confirm_wait", "confirm_sync"}
             /\ task'[t].n <= ConfirmChecks
             /\ task'[t].pc = "confirm_wait" => task'[t].n = task[t].n + 1
             /\ (task[t].n >= ConfirmChecks) => task'[t].pc = "confirm_sync"]_vars

\* C13 witness: a confirmation was sent, the flow never reported completion,
\* and confirm_verification has returned Ok.
C13_Witness ==
    \E t \in Tasks :
        /\ Returned(t, "confirm_verification")
        /\ task[t].ok
        /\ task[t].touched
        /\ vreq[task[t].fl].phase # "done"

\* C14: confirm_verification returns Ok only from its final sync, and that sync
\* starts only after sas.confirm() and at least one completion check.
C14_SyncAfterConfirm ==
    /\ \A t \in Tasks : At(t, "confirm_sync") => task[t].n \in 1..ConfirmChecks
    /\ \A t \in Tasks :
         Returned(t, "confirm_verification") /\ task[t].ok =>
            task[t].msg = "Verification confirmed and complete!" /\ task[t].synced

\* C14 witness: a confirmation was sent, the other device finished, and the
\* command returned Ok after its sync.
C14_Witness ==
    \E t \in Tasks :
        /\ Returned(t, "confirm_verification")
        /\ task[t].ok
        /\ task[t].touched
        /\ task[t].synced
        /\ vreq[task[t].fl].phase = "done"

\* the devices of a list
DevicesOf(ds) == {ds[i] : i \in 1..Len(ds)}

\* C15: the devices request_verification goes on to ask never include the
\* current device, and when the device list holds no device but the current
\* one the command returns "No other devices found" and leaves the recorded
\* flow id and the SDK's requests as they were.
C15_NoOtherDevices ==
    [][\A t \in Tasks :
          /\ task'[t].pc = "req_send" => OwnDevice \notin DevicesOf(task'[t].devs)
          /\ At(t, "req_devices") =>
                \A ds \in DeviceLists :
                   (DevicesOf(ds) \subseteq {OwnDevice} /\ ReqFilter(t, ds)) =>
                      /\ task'[t].pc = "ret"
                      /\ ~task'[t].ok
                      /\ task'[t].msg = "No other devices found"
                      /\ UNCHANGED <<verification_flow_id, vreq, nextFlow>>]_vars

\* C15 witness: request_verification has returned "No other devices found".
C15_Witness ==
    \E t \in Tasks :
        /\ Returned(t, "request_verification")
        /\ task[t].msg = "No other devices found"
        /\ verification_flow_id = NoFlow

\* C16: each round of the device loop asks the first remaining device; a
\* request that is accepted creates one flow and ends the loop, and the command
\* records that flow's id and returns Ok; a request that fails drops that
\* device and nothing else; with no device left the command returns "Could not
\* send verification request to any device" and the recorded flow id is the
\* one it found when it was called.
C16_FirstSuccessWins ==
    [][\A t \in Tasks :
          /\ (At(t, "req_send") /\ task'[t] # task[t]) =>
                \/ /\ task[t].devs # <<>>
                   /\ nextFlow' = nextFlow + 1
                   /\ task'[t].pc = "req_record"
                   /\ task'[t].n = nextFlow
                   /\ task'[t].devs = task[t].devs
                   /\ verification_flow_id' = verification_flow_id
                \/ /\ task[t].devs # <<>>
                   /\ task'[t].pc = "req_send"
                   /\ task'[t].devs = Tail(task[t].devs)
                   /\ UNCHANGED <<verification_flow_id, vreq, nextFlow>>
                \/ /\ task[t].devs = <<>>
                   /\ task'[t].pc = "ret" /\ ~task'[t].ok
                   /\ task'[t].msg = "Could not send verification request to any device"
                   /\ verification_flow_id' = task[t].fl
                   /\ UNCHANGED <<verification_flow_id, vreq, nextFlow>>
          /\ (At(t, "req_record") /\ task'[t] # task[t]) =>
                /\ task'[t].pc = "ret" /\ task'[t].ok
                /\ verification_flow_id' = task[t].n
                /\ nextFlow' = nextFlow]_vars

\* C16 witness: with a flow id recorded, a later request_verification found
\* no device that accepted, and the recorded flow id is still the earlier one.
C16_Witness ==
    \E t \in Tasks :
        /\ Returned(t, "request_verification")
        /\ task[t].msg = "Could not send verification request to any device"
        /\ task[t].fl # NoFlow
        /\ verification_flow_id = task[t].fl

\* C17 (as claimed): on an account without cross-signing request_verification
\* never returns Ok, no verification request is sent to any device and no flow
\* id is recorded.
C17_NeedsCrossSigning ==
    cross_signing = "unavailable" =>
        /\ verification_flow_id = NoFlow
        /\ \A f \in Flows : vreq[f] = NoRequest
        /\ \A t \in Tasks :
             Returned(t, "request_verification") => ~task[t].ok

\* C18: verify_with_recovery_key called with an empty or whitespace-only key
\* returns "Recovery key is required" in its first step, logged in or not,
\* without taking the read guard of the client; and no step of the command,
\* whatever the key, changes the recorded flow id or the SDK's requests.
C18_RecoveryKeyFrame ==
    [][\A t \in Tasks :
          /\ (At(t, "idle") /\ task'[t].cmd = "verify_with_recovery_key"
                /\ Trim(task'[t].un) = <<>>) =>
                /\ task'[t].pc = "ret"
                /\ ~task'[t].ok
                /\ task'[t].msg = "Recovery key is required"
                /\ UNCHANGED <<clientReaders, cross_signing>>
          /\ VerifyWithRecoveryKey(t) =>
                UNCHANGED <<verification_flow_id, vreq, nextFlow, flowReaders>>]_vars

\* C18 witness: with nobody logged in, a whitespace-only key was refused as
\* missing.
C18_Witness ==
    \E t \in Tasks :
        /\ Returned(t, "verify_with_recovery_key")
        /\ task[t].un = Blank
        /\ task[t].msg = "Recovery key is required"
        /\ client = NoClient

\* C19: no step of check_verification_status changes the client, the user id,
\* the recorded flow id, a verification request or the cross-signing status,
\* and every result it returns has needs_verification = ~is_verified.
C19_StatusFrame ==
    [][\A t \in Tasks :
          CheckVerificationStatus(t) =>
             /\ UNCHANGED <<client, user_id, verification_flow_id, vreq, nextFlow,
                            cross_signing>>
             /\ (task'[t].pc = "ret" /\ task'[t].ok) =>
                   /\ Len(task'[t].val) = 2
                   /\ task'[t].val[1] = ~task'[t].val[2]]_vars

\* C19 witness: the status of a verified device was returned while a
\* verification request is recorded.
C19_Witness ==
    \E t \in Tasks :
        /\ Returned(t, "check_verification_status")
        /\ task[t].ok
        /\ task[t].val = <<FALSE, TRUE>>
        /\ verification_flow_id # NoFlow

\* C20 (as claimed): the interval of pollForEmoji starts at most maxAttempts
\* polls for one verification request.
C20_AtMostMaxAttempts == timer.attempts <= maxAttempts

\* C21 (as claimed): when the interval of pollForEmoji has used up its
\* maxAttempts polls without showing the emoji, the dialog calls
\* cancel_verification: once the timeout is shown and no call of the dialog is
\* pending or running, no flow id is recorded.
C21_TimeoutCancels ==
    /\ dlg.open /\ dlg.step = "waiting" /\ dlg.error = "timeout"
    /\ \A t \in Tasks : At(t, "free")
    => verification_flow_id = NoFlow

\* a successful get_messages has returned to task t
PageReturned(t) == Returned(t, "get_messages") /\ task[t].ok

\* C22 (as claimed): whatever batch the homeserver returns, the messages of the
\* page get_messages returns are in non-decreasing timestamp order.
C22_PageSorted ==
    \A t \in Tasks :
        PageReturned(t) =>
            LET ms == task[t].page.messages
            IN \A i, j \in 1..Len(ms) : i < j => ms[i].timestamp <= ms[j].timestamp

\* the entries of a chunk that are room messages of an unsupported sub-kind
Unsupported(chunk) ==
    {i \in 1..Len(chunk) : chunk[i].kind # "UnableToDecrypt" /\ chunk[i].content = "Image"}

\* C23 (as claimed): the page built from a chunk of N entries holds N messages
\* minus the entries whose message sub-kind is unsupported; no entry is dropped
\* because it failed to deserialize, is no room message, or is redacted.
C23_NothingElseDropped ==
    \A t \in Tasks :
        PageReturned(t) =>
            Len(task[t].page.messages)
                = Len(task[t].chunk) - Cardinality(Unsupported(task[t].chunk))

\* C24: in every page get_messages returns, next_token is the token the
\* homeserver returned, has_more is true exactly when that token is present and
\* the chunk was not empty; so has_more is false whenever next_token is absent,
\* and a page with has_more carries a token.
C24_HasMore ==
    \A t \in Tasks :
        PageReturned(t) =>
            LET page == task[t].page
            IN /\ page.next_token = task[t].end
               /\ page.has_more <=> (task[t].end # NoToken /\ task[t].chunk # <<>>)
               /\ page.next_token = NoToken => ~page.has_more
               /\ page.has_more => page.next_token # NoToken

\* C24's cases happen: an empty chunk that comes with a token, answered with
\* has_more false, after a page that had more
C24_Witness ==
    \E t \in Tasks :
        /\ PageReturned(t)
        /\ task[t].chunk = <<>>
        /\ task[t].page.next_token # NoToken
        /\ ~task[t].page.has_more
        /\ task[t].prev.page.has_more

\* the entries of room r below the token tok that yield a message
SupportedBefore(r, tok) ==
    LET tl == TimelineOf(r)
        start == IF tok = NoToken THEN Len(tl) ELSE Min(tok.pos, Len(tl))
    IN {i \in 1..start : MapEvent(tl[i]) # <<>>}

\* C25 (as claimed): get_messages(room, limit, token) returns at most limit
\* messages; on a room holding at least limit supported messages before the
\* token it returns exactly limit messages, and, when the room holds still
\* more of them, has_more true and a token.
C25_LimitHonoured ==
    \A t \in Tasks :
        PageReturned(t) =>
            LET page == task[t].page
                held == Cardinality(SupportedBefore(task[t].room, task[t].tok))
            IN /\ Len(page.messages) <= task[t].lim
               /\ held >= task[t].lim => Len(page.messages) = task[t].lim
               /\ held > task[t].lim => page.has_more /\ page.next_token # NoToken

\* C26 (as claimed): when a page was fetched with the token of the page before
\* it, for the same room, each of its messages has a timestamp less than or
\* equal to that of every message of the page before.
C26_PagesOrdered ==
    \A t \in Tasks :
        PageReturned(t) /\ task[t].tok # NoToken /\ task[t].prev.room = task[t].room
                        /\ task[t].prev.page.next_token = task[t].tok =>
            LET older == task[t].page.messages
                newer == task[t].prev.page.messages
            IN \A i \in 1..Len(older), j \in 1..Len(newer) :
                  older[i].timestamp <= newer[j].timestamp

\* C27: matrix_sync and get_messages called with no client stored fail with
\* "Not logged in" at once, without a request to the homeserver; get_messages
\* with a room id that parses but names no room of the session fails with
\* "Room not found" (one that does not parse: "Invalid room ID"), also at once;
\* a failed call returns no page, and no step of either command changes the
\* client, the user id or the flow id.
C27_RetrievalFailures ==
    [][\A t \in Tasks :
          LET n == task'[t]
              failsWith(m) == n.pc = "ret" /\ ~n.ok /\ n.msg = m
          IN n.cmd \in {"matrix_sync", "get_messages"} =>
                /\ n.lc = NoClient => failsWith("Not logged in")
                /\ n.cmd = "get_messages" /\ n.lc # NoClient /\ ~RoomIdParses(n.room)
                      => failsWith("Invalid room ID")
                /\ n.cmd = "get_messages" /\ n.lc # NoClient /\ RoomIdParses(n.room)
                      /\ n.room \notin JoinedRooms
                      => failsWith("Room not found")
                /\ n.pc = "ret" /\ ~n.ok => n.page = NoPage /\ n.chunk = <<>>
                /\ n.pc \in {"sync_wait", "msgs_fetch"} => t \in clientReaders'
                /\ n.pc = "ret" => t \notin clientReaders'
                /\ UNCHANGED store]_vars

\* C27's cases happen: a logged-in call for a room the user is not in has
\* returned "Room not found"
C27_Witness ==
    \E t \in Tasks :
        /\ Returned(t, "get_messages")
        /\ client # NoClient
        /\ task[t].room = RoomX
        /\ task[t].msg = "Room not found"

\* C28 (as claimed): every get_messages call the App makes with a token sends
\* a token that an earlier get_messages returned for the same room in the
\* current login: never room A's token with room B's id, nor a token of an
\* earlier login.
C28_CursorMatchesRoom ==
    \A t \in Tasks :
        At(t, "call") /\ task[t].cmd = "get_messages" /\ task[t].tok # NoToken =>
            /\ task[t].tok.room = task[t].room
            /\ task[t].tok.hid = lastLogin.hid

\* the (sender, timestamp) pairs of a list of messages
PairsOf(ms) == {<<ms[i].sender, ms[i].timestamp>> : i \in 1..Len(ms)}

\* C29 (as claimed): when loadMoreMessages merges an older page into the
\* displayed list, the new list holds every fetched message whose (sender,
\* timestamp) pair was not displayed, and holds no such pair twice.
C29_MergeDeduplicates ==
    [][\A t \in Tasks :
          At(t, "ret") /\ cb[t] = "loadMore" /\ task[t].ok /\ cb'[t] = "none" =>
             LET fetched == task[t].page.messages
                 shown == app.messages
                 merged == app'.messages
             IN /\ PairsOf(fetched) \ PairsOf(shown) \subseteq PairsOf(merged)
                /\ \A i, j \in 1..Len(merged) :
                      i < j => <<merged[i].sender, merged[i].timestamp>>
                                 # <<merged[j].sender, merged[j].timestamp>>]_vars

\* task t is awaiting client.sync_once(...): in matrix_sync, matrix_login,
\* request_verification or confirm_verification
Syncing(t) == task[t].pc \in {"sync_wait", "login_sync", "req_sync", "confirm_sync"}

\* C30 (as claimed): at most one synchronization pass runs against a
\* connection at any time: two tasks never await sync_once on the same client.
C30_OneSyncAtATime ==
    \A t, u \in Tasks :
        t # u /\ Syncing(t) /\ Syncing(u) => task[t].lc.hid # task[u].lc.hid

\* C31 (as claimed): two matrix_login calls that ran concurrently end as if
\* one had run after the other: when both have returned success, the client,
\* the user id and the session directory are those of one and the same call.
C31_ConcurrentLoginsConsistent ==
    (\A t \in Tasks : Returned(t, "matrix_login") /\ task[t].ok) =>
        \E t \in Tasks :
            /\ client = task[t].lc
            /\ user_id = task[t].val
            /\ disk[sanitize_user_id(task[t].un)] = "store"

(* ---------------------------- logging in again ------------------------- *)
\* matrix_login called again and again by one caller, the user id typed with or
\* without surrounding white space
LoginNames == {Blank, UserA, UserAPadded}

Relogin(t) ==
    \/ \E hs \in {HS_http, HS_ftp}, un \in LoginNames, pw \in Passwords :
          LoginStart(t, hs, un, pw)
    \/ LoginBuild(t)
    \/ LoginAuth(t)
    \/ LoginSync(t)
    \/ LoginSetClient(t)
    \/ LoginSetUser(t)
    \/ Return(t)

NextRelogin == Relogin(1)

SpecRelogin == Init /\ [][NextRelogin]_vars

C33_SyncBeforeRequest ==
    [][\A t \in Tasks :
          (task[t].cmd = "request_verification" /\ task'[t] # task[t]) =>
             /\ task[t].pc \in {"req_devices", "req_send", "req_record"}
                   => task[t].synced
             /\ (task[t].pc = "req_sync" /\ ~task'[t].synced) =>
                   /\ task'[t].pc = "ret" /\ ~task'[t].ok
                   /\ task'[t].msg = "Sync failed"
                   /\ UNCHANGED <<vreq, nextFlow, verification_flow_id>>]_vars

\* a request_verification call has returned the failure of its sync pass
C33_Witness ==
    \E t \in Tasks :
        /\ Returned(t, "request_verification")
        /\ task[t].msg = "Sync failed"
        /\ ~task[t].synced
        /\ verification_flow_id = NoFlow
        /\ nextFlow = 1

\* C34 (as claimed): polling again does not run the short-code sub-protocol
\* again: once a poll has started and accepted the SAS of the flow, no poll
\* calls start_sas() or accept() for that flow any more.
C34_PollIdempotent ==
    [][\A t \in Tasks :
          (/\ task[t].cmd = "get_verification_emoji"
           /\ \/ task[t].pc = "emoji_start_sas" /\ task'[t].pc = "emoji_accept"
              \/ task[t].pc = "emoji_accept" /\ task'[t].pc = "emoji_sleep")
          => vreq[task[t].fl].sas \in {"none", "started"}]_vars

\* C35 (as claimed): once the user's cancellation has cleared the flow and
\* closed the dialog, the front end starts no further poll: every poll is
\* started with the dialog open or a flow still recorded.
C35_NoPollAfterCancel ==
    [][\A t \in Tasks :
          (cb[t] # "poll" /\ cb'[t] = "poll") =>
              dlg.open \/ verification_flow_id # NoFlow]_vars

\* C36 (as claimed): when confirm_verification has returned success, the flow
\* is destroyed: no active flow id is recorded any more.
C36_ConfirmEndsFlow ==
    \A t \in Tasks :
        (Returned(t, "confirm_verification") /\ task[t].ok) =>
            verification_flow_id = NoFlow

(* ---------------------------- paging back to the start of a room ------- *)
\* logged in as UserA, Room1 holding any timeline of at most MaxTimeline
\* events, each a text message or a state event
InitLoop ==
    /\ client = [user |-> ServerUserId(UserA), hid |-> 1]
    /\ user_id = ServerUserId(UserA)
    /\ lastLogin = [user |-> ServerUserId(UserA), hid |-> 1]
    /\ disk = [d \in DirNames |-> IF d = sanitize_user_id(UserA) THEN "store" ELSE "absent"]
    /\ nextHid = 2
    /\ \E tl \in {x \in TimelinesOf(MaxTimeline) :
                     \A i \in 1..Len(x) : /\ x[i].ts # NoTimestamp
                                          /\ x[i].content \in {"Text", "State"}} :
          timeline = [r \in JoinedRooms |-> IF r = Room1 THEN tl ELSE <<>>]
    /\ verification_flow_id = NoFlow
    /\ clientReaders = {}
    /\ flowReaders = {}
    /\ vreq = [f \in Flows |-> NoRequest]
    /\ nextFlow = 1
    /\ replaced = NoUser
    /\ cancelledSeen = 0
    /\ task = [t \in Tasks |-> IdleTask]
    /\ dlg = NoDialog
    /\ timer = NoTimer
    /\ cb = [t \in Tasks |-> "none"]
    /\ declared = [f \in Flows |-> {}]
    /\ cross_signing = "incomplete"
    /\ lastPage = NoFetch
    /\ app = AppStart
    /\ closure = [t \in Tasks |-> NoClosure]

\* the first batch: getMessages(roomId, 50); called again when it failed
LoopFirst(t) ==
    /\ lastPage = NoFetch
    /\ GetMessagesStart(t, Room1, LoadLimit, NoToken)

\* while (response.has_more && nextToken): getMessages(roomId, 50, nextToken);
\* a failed call leaves the cursor as it was, and the caller fetches again
LoopMore(t) ==
    /\ lastPage # NoFetch
    /\ lastPage.page.has_more /\ lastPage.page.next_token # NoToken
    /\ GetMessagesStart(t, Room1, LoadLimit, lastPage.page.next_token)

\* room.messages(options) answered by the homeserver
FetchAnswered(t) == GetMessagesFetch(t) /\ task'[t].ok

NextLoop == LoopFirst(1) \/ LoopMore(1) \/ GetMessagesFetch(1) \/ Return(1)

\* the caller and the command keep running, and the homeserver does not fail
\* every request for ever
SpecLoop ==
    InitLoop /\ [][NextLoop]_vars /\ WF_vars(NextLoop) /\ SF_vars(FetchAnswered(1))

LoadInFlight == \E t \in Tasks : cb[t] \in {"loadInitial", "loadMore"}

\* C38 (as claimed): whenever no message load is in flight, the cursor the App
\* holds was returned for the selected room, and every message it displays is
\* a message of the selected room.
C38_PaneShowsSelectedRoom ==
    (app.loggedIn /\ app.selectedRoom # NoRoom /\ ~LoadInFlight) =>
        /\ app.nextToken # NoToken => app.nextToken.room = app.selectedRoom
        /\ PairsOf(app.messages) \subseteq
              {<<e.sender, e.ts>> : e \in {timeline[app.selectedRoom][i] :
                                             i \in 1..Len(timeline[app.selectedRoom])}}

\* C39 (as claimed): at most one poll is in flight at any time: while one
\* get_verification_emoji call of the dialog is starting or accepting the SAS,
\* or sleeping before it reads the emoji, the dialog has no other poll pending
\* or running.
C39_OnePollInFlight ==
    \A t \in Tasks :
        (cb[t] = "poll" /\ task[t].pc \in {"emoji_start_sas", "emoji_accept", "emoji_sleep"})
        => \A u \in Tasks \ {t} : cb[u] # "poll"

====
